---- MODULE Spec2Model ----
(***************************************************************************)
(* Model of the jsonx dynamic JSON value engine of zhoudm1743/go-util.     *)
(*                                                                         *)
(* A JSON handle is a Go pointer to a struct {data interface{}; err error}.*)
(* The payload is a tree of Go maps (reference objects) and Go slices      *)
(* (a header <<backing array, len>> copied by value, whose backing array   *)
(* is shared).  The model keeps an explicit heap of maps, backing arrays   *)
(* and JSON structs, so that in-place mutation, slice reallocation by      *)
(* append and handle aliasing behave as they do in the Go program.         *)
(***************************************************************************)
EXTENDS Integers, Sequences, FiniteSets, TLC

VARIABLES
    maps,     \* heap of Go maps: maps[m] is a function from keys to values
    arrs,     \* heap of backing arrays: arrs[a] = [cap, el], el holds the non-nil slots
    js,       \* heap of JSON structs: js[p] = [data, err, fam]
    hd,       \* the handles the caller holds: hd.v (root), hd.c (clone), hd.h (last result)
    last,     \* the call made by the last step, with its receiver and result
    prev,     \* the call made before that
    steps,    \* number of calls made so far
    uf,       \* Flatten / Unflatten: the flat mapping and the replay order taken
    bd,       \* Builder: what its caller has added and appended so far
    tk,       \* jwt: the token string in flight and what ParseWithClaims returned
    reg,      \* types: the EnumRegistry, its lock and the goroutines using it
    aborted   \* TRUE once a call has panicked (the process is gone)

vars == <<maps, arrs, js, hd, last, prev, steps, uf, bd, tk, reg, aborted>>

----------------------------------------------------------------------------
(* Bounds of the model *)

MaxSteps == 2

(* Program constant: the growth cap of setByPathRecursive *)
MaxIndex == 10000

\* An index far beyond any array of the model (arr.Index(999999))
BigIndex == 999999

----------------------------------------------------------------------------
(* Strings are sequences of one-character strings *)

Digits == <<"0", "1", "2", "3", "4", "5", "6", "7", "8", "9">>

IsDigit(c) == \E i \in 1..10 : Digits[i] = c

DigitVal(c) == (CHOOSE i \in 1..10 : Digits[i] = c) - 1

RECURSIVE DigitsVal(_, _)
DigitsVal(s, acc) ==
    IF s = <<>> THEN acc ELSE DigitsVal(Tail(s), 10 * acc + DigitVal(Head(s)))

(* strconv.Atoi: an optional sign, then one or more decimal digits *)
Atoi(s) ==
    LET signed == s # <<>> /\ Head(s) \in {"-", "+"}
        body   == IF signed THEN Tail(s) ELSE s
    IN  IF body = <<>> \/ \E i \in 1..Len(body) : ~IsDigit(body[i])
        THEN [ok |-> FALSE, n |-> 0]
        ELSE [ok |-> TRUE,
              n  |-> IF signed /\ Head(s) = "-"
                     THEN 0 - DigitsVal(body, 0) ELSE DigitsVal(body, 0)]

RECURSIVE SplitAcc(_, _, _)
SplitAcc(s, cur, acc) ==
    IF s = <<>> THEN Append(acc, cur)
    ELSE IF Head(s) = "." THEN SplitAcc(Tail(s), <<>>, Append(acc, cur))
    ELSE SplitAcc(Tail(s), Append(cur, Head(s)), acc)

(* strings.Split(path, ".") *)
Split(s) == SplitAcc(s, <<>>, <<>>)

RECURSIVE ItoaAcc(_, _)
ItoaAcc(n, acc) ==
    IF n < 10 THEN <<Digits[n + 1]>> \o acc
    ELSE ItoaAcc(n \div 10, <<Digits[(n % 10) + 1]>> \o acc)

(* strconv.Itoa / fmt.Sprintf("%d", i) for i >= 0 *)
Itoa(n) == ItoaAcc(n, <<>>)

----------------------------------------------------------------------------
(* Values held in an interface{} *)

Nil == [t |-> "nil", r |-> 0, n |-> 0]

Str(x) == [t |-> "str", r |-> x, n |-> 0]

MapRef(m) == [t |-> "map", r |-> m, n |-> 0]

Slice(a, len) == [t |-> "arr", r |-> a, n |-> len]

NoErr == "none"

EmptyFn == [k \in {} |-> Nil]

(* The heap as one value, threaded through the operators below *)
Heap == [maps |-> maps, arrs |-> arrs]

AllocMap(H, f) == [H EXCEPT !.maps = Append(@, f)]

AllocArr(H, cap, el) == [H EXCEPT !.arrs = Append(@, [cap |-> cap, el |-> el])]

NewMapId(H) == Len(H.maps) + 1

NewArrId(H) == Len(H.arrs) + 1

Cap(H, s) == H.arrs[s.r].cap

(* arr[i] for a slice header s, 0 <= i < len *)
ArrGet(H, s, i) == IF i \in DOMAIN H.arrs[s.r].el THEN H.arrs[s.r].el[i] ELSE Nil

ElPut(el, i, v) ==
    IF v = Nil THEN [k \in (DOMAIN el) \ {i} |-> el[k]]
    ELSE [k \in (DOMAIN el) \cup {i} |-> IF k = i THEN v ELSE el[k]]

(* backing[i] = v *)
ArrPut(H, a, i, v) == [H EXCEPT !.arrs[a].el = ElPut(@, i, v)]

MapHas(H, m, k) == k \in DOMAIN H.maps[m.r]

(* obj[k] = v *)
MapPut(H, m, k, v) ==
    [H EXCEPT !.maps[m.r] =
        [x \in (DOMAIN @) \cup {k} |-> IF x = k THEN v ELSE @[x]]]

(* delete(obj, k) *)
MapDel(H, m, k) ==
    [H EXCEPT !.maps[m.r] = [x \in (DOMAIN @) \ {k} |-> @[x]]]

(* Capacity chosen by the Go runtime when append must reallocate
   (growslice: doubling below 256 elements, then 1.25x + 192). *)
GrowCap(oldCap, newLen) ==
    IF newLen > 2 * oldCap THEN newLen
    ELSE IF oldCap < 256 THEN 2 * oldCap
    ELSE oldCap + ((oldCap + 768) \div 4)

RECURSIVE FinalCap(_, _)
FinalCap(cap, need) ==
    IF cap >= need THEN cap ELSE FinalCap(GrowCap(cap, cap + 1), need)

(* A growth whose reallocation does not copy the old elements *)
Grow_dropsOld(H, s, idx) ==
    IF idx < s.n THEN [H |-> H, s |-> s]
    ELSE IF idx < Cap(H, s)
    THEN [H |-> [H EXCEPT !.arrs[s.r].el =
                    [k \in {x \in DOMAIN @ : x < s.n \/ x > idx} |-> @[k]]],
          s |-> Slice(s.r, idx + 1)]
    ELSE [H |-> AllocArr(H, FinalCap(Cap(H, s), idx + 1), EmptyFn),
          s |-> Slice(NewArrId(H), idx + 1)]

(* for len(arr) <= idx { arr = append(arr, nil) } *)
Grow(H, s, idx) ==
    IF idx < s.n THEN [H |-> H, s |-> s]
    ELSE LET cap  == Cap(H, s)
             old  == H.arrs[s.r].el
             kept == [k \in {x \in DOMAIN old : x < s.n} |-> old[k]]
             \* appends within capacity write nil in place
             inpl == [k \in {x \in DOMAIN old : x < s.n \/ x > idx} |-> old[k]]
         IN  IF idx < cap
             THEN [H |-> [H EXCEPT !.arrs[s.r].el = inpl],
                   s |-> Slice(s.r, idx + 1)]
             ELSE [H |-> AllocArr([H EXCEPT !.arrs[s.r].el = kept],
                                  FinalCap(cap, idx + 1), kept),
                   s |-> Slice(NewArrId(H), idx + 1)]

----------------------------------------------------------------------------
(* Path engine *)

Ok(v) == [v |-> v, err |-> NoErr]

Fail(e) == [v |-> Nil, err |-> e]

RECURSIVE getWalk(_, _, _)
(* getWalk with the upper bound check off by one (idx > len) *)
getWalk_offByOne(H, current, parts) ==
    IF parts = <<>> THEN Ok(current)
    ELSE LET part == Head(parts)
             a    == Atoi(part)
         IN  IF a.ok /\ current.t = "arr"
             THEN IF a.n < 0 \/ a.n > current.n
                  THEN Fail("IndexOutOfRange")
                  ELSE getWalk(H, ArrGet(H, current, a.n), Tail(parts))
             ELSE IF current.t = "map"
             THEN IF MapHas(H, current, part)
                  THEN getWalk(H, H.maps[current.r][part], Tail(parts))
                  ELSE Fail("PathNotFound")
             ELSE Fail("TypeMismatch")

getWalk(H, current, parts) ==
    IF parts = <<>> THEN Ok(current)
    ELSE LET part == Head(parts)
             a    == Atoi(part)
         IN  IF a.ok /\ current.t = "arr"
             THEN IF a.n < 0 \/ a.n >= current.n
                  THEN Fail("IndexOutOfRange")
                  ELSE getWalk(H, ArrGet(H, current, a.n), Tail(parts))
             ELSE IF current.t = "map"
             THEN IF MapHas(H, current, part)
                  THEN getWalk(H, H.maps[current.r][part], Tail(parts))
                  ELSE Fail("PathNotFound")
             ELSE Fail("TypeMismatch")

(* JSON.getByPath *)
getByPath(H, data, path) ==
    IF path = <<>> THEN Ok(data) ELSE getWalk(H, data, Split(path))

RECURSIVE udrWalk(_, _, _, _)
udrWalk(H, current, parts, newRef) ==
    LET part == Head(parts)
        a    == Atoi(part)
    IN  IF Len(parts) = 1
        THEN IF current.t = "map" THEN MapPut(H, current, part, newRef) ELSE H
        ELSE udrWalk(H,
                     IF a.ok
                     THEN IF current.t = "arr" /\ a.n >= 0 /\ a.n < current.n
                          THEN ArrGet(H, current, a.n) ELSE current
                     ELSE IF current.t = "map"
                          THEN IF MapHas(H, current, part)
                               THEN H.maps[current.r][part] ELSE Nil
                          ELSE current,
                     Tail(parts), newRef)

(* JSON.updateDataReference: the heap and j.data afterwards *)
updateDataReference(H, data, newRef, path) ==
    IF path = <<>> THEN [H |-> H, data |-> newRef]
    ELSE [H |-> udrWalk(H, data, Split(path), newRef), data |-> data]

SetDone(H, data, e) == [H |-> H, data |-> data, err |-> e, panic |-> FALSE]

SetPanic(H, data) == [H |-> H, data |-> data, err |-> NoErr, panic |-> TRUE]

(* make([]interface{}, n): panics when n < 0 *)
MakeOk(n) == n >= 0

RECURSIVE setByPathRecursive(_, _, _, _, _, _)
setByPathRecursive(H, data, current, parts, value, currentPath) ==
    IF parts = <<>> THEN SetDone(H, data, "EmptyParts")
    ELSE
    LET part     == Head(parts)
        isLast   == Len(parts) = 1
        a        == Atoi(part)
        nextPath == IF currentPath = <<>> THEN part
                    ELSE currentPath \o <<".">> \o part
    IN
    IF isLast THEN
        IF a.ok THEN
            IF current.t = "arr" THEN
                IF a.n < 0 \/ a.n >= MaxIndex THEN SetDone(H, data, "InvalidIndex")
                ELSE LET g  == Grow(H, current, a.n)
                         H2 == ArrPut(g.H, g.s.r, a.n, value)
                         u  == updateDataReference(H2, data, g.s, currentPath)
                     IN  SetDone(u.H, u.data, NoErr)
            ELSE SetDone(H, data, "TypeMismatch")
        ELSE
            IF current.t = "map" THEN SetDone(MapPut(H, current, part, value), data, NoErr)
            ELSE SetDone(H, data, "TypeMismatch")
    ELSE
    LET nextPart == parts[2]
        na       == Atoi(nextPart)
    IN
    IF a.ok THEN
        IF current.t = "arr" THEN
            IF a.n < 0 \/ a.n >= MaxIndex THEN SetDone(H, data, "InvalidIndex")
            ELSE LET g    == Grow(H, current, a.n)
                     hole == ArrGet(g.H, g.s, a.n) = Nil
                 IN  IF hole /\ na.ok /\ ~MakeOk(na.n + 1) THEN SetPanic(g.H, data)
                     ELSE
                     LET H2 == IF ~hole THEN g.H
                               ELSE IF na.ok
                               THEN ArrPut(AllocArr(g.H, na.n + 1, EmptyFn), g.s.r, a.n,
                                           Slice(NewArrId(g.H), na.n + 1))
                               ELSE ArrPut(AllocMap(g.H, EmptyFn), g.s.r, a.n,
                                           MapRef(NewMapId(g.H)))
                         nextCurrent == ArrGet(H2, g.s, a.n)
                         u  == updateDataReference(H2, data, g.s, currentPath)
                     IN  setByPathRecursive(u.H, u.data, nextCurrent, Tail(parts),
                                            value, nextPath)
        ELSE SetDone(H, data, "TypeMismatch")
    ELSE
        IF current.t = "map" THEN
            LET H2 == IF MapHas(H, current, part) THEN H
                      ELSE IF na.ok
                      THEN MapPut(AllocArr(H, 0, EmptyFn), current, part,
                                  Slice(NewArrId(H), 0))
                      ELSE MapPut(AllocMap(H, EmptyFn), current, part,
                                  MapRef(NewMapId(H)))
                nextCurrent == H2.maps[current.r][part]
            IN  setByPathRecursive(H2, data, nextCurrent, Tail(parts), value, nextPath)
        ELSE SetDone(H, data, "TypeMismatch")

(* JSON.setByPath *)
setByPath(H, data, path, value) ==
    IF path = <<>> THEN SetDone(H, value, NoErr)
    ELSE LET parts == Split(path)
             a     == Atoi(parts[1])
         IN  IF data # Nil THEN setByPathRecursive(H, data, data, parts, value, <<>>)
             ELSE IF a.ok
             THEN IF ~MakeOk(a.n + 1) THEN SetPanic(H, data)
                  ELSE LET root == Slice(NewArrId(H), a.n + 1)
                       IN  setByPathRecursive(AllocArr(H, a.n + 1, EmptyFn), root, root,
                                              parts, value, <<>>)
             ELSE LET root == MapRef(NewMapId(H))
                  IN  setByPathRecursive(AllocMap(H, EmptyFn), root, root,
                                         parts, value, <<>>)

RECURSIVE delWalk(_, _, _)
(* delWalk that treats a non-object parent as nothing to delete *)
delWalk_silent(H, current, parts) ==
    LET part == Head(parts)
        a    == Atoi(part)
    IN  IF Len(parts) = 1
        THEN IF current.t = "map"
             THEN [H |-> MapDel(H, current, part), err |-> NoErr]
             ELSE [H |-> H, err |-> NoErr]
        ELSE IF a.ok /\ current.t = "arr"
             THEN IF a.n < 0 \/ a.n >= current.n
                  THEN [H |-> H, err |-> "IndexOutOfRange"]
                  ELSE delWalk(H, ArrGet(H, current, a.n), Tail(parts))
             ELSE IF current.t = "map"
             THEN IF MapHas(H, current, part)
                  THEN delWalk(H, H.maps[current.r][part], Tail(parts))
                  ELSE [H |-> H, err |-> "PathNotFound"]
             ELSE [H |-> H, err |-> "TypeMismatch"]

delWalk(H, current, parts) ==
    LET part == Head(parts)
        a    == Atoi(part)
    IN  IF Len(parts) = 1
        THEN IF current.t = "map"
             THEN [H |-> MapDel(H, current, part), err |-> NoErr]
             ELSE [H |-> H, err |-> "TypeMismatch"]
        ELSE IF a.ok /\ current.t = "arr"
             THEN IF a.n < 0 \/ a.n >= current.n
                  THEN [H |-> H, err |-> "IndexOutOfRange"]
                  ELSE delWalk(H, ArrGet(H, current, a.n), Tail(parts))
             ELSE IF current.t = "map"
             THEN IF MapHas(H, current, part)
                  THEN delWalk(H, H.maps[current.r][part], Tail(parts))
                  ELSE [H |-> H, err |-> "PathNotFound"]
             ELSE [H |-> H, err |-> "TypeMismatch"]

(* JSON.deleteByPath: the heap, j.data and the error afterwards *)
deleteByPath(H, data, path) ==
    IF path = <<>> THEN [H |-> H, data |-> Nil, err |-> NoErr]
    ELSE LET d == delWalk(H, data, Split(path))
         IN  [H |-> d.H, data |-> data, err |-> d.err]

----------------------------------------------------------------------------
(* Cloning and merging *)

RECURSIVE deepClone(_, _)
RECURSIVE cloneKeys(_, _, _, _)
RECURSIVE cloneSlots(_, _, _, _)

(* for k, v := range val { result[k] = deepClone(v) } *)
cloneKeys(H, src, keys, dst) ==
    IF keys = {} THEN H
    ELSE LET k == CHOOSE x \in keys : TRUE
             c == deepClone(H, H.maps[src.r][k])
         IN  cloneKeys(MapPut(c.H, dst, k, c.v), src, keys \ {k}, dst)

(* for i, v := range val { result[i] = deepClone(v) } *)
cloneSlots(H, src, idxs, dst) ==
    IF idxs = {} THEN H
    ELSE LET i == CHOOSE x \in idxs : TRUE
             c == deepClone(H, ArrGet(H, src, i))
         IN  cloneSlots(ArrPut(c.H, dst.r, i, c.v), src, idxs \ {i}, dst)

(* deepClone that copies the reference only *)
deepClone_shallow(H, v) == [H |-> H, v |-> v]

(* deepClone: the heap afterwards and the copy *)
deepClone(H, v) ==
    IF v.t = "map"
    THEN LET dst == MapRef(NewMapId(H))
         IN  [H |-> cloneKeys(AllocMap(H, EmptyFn), v, DOMAIN H.maps[v.r], dst),
              v |-> dst]
    ELSE IF v.t = "arr"
    THEN LET dst == Slice(NewArrId(H), v.n)
         IN  [H |-> cloneSlots(AllocArr(H, v.n, EmptyFn), v,
                               {i \in DOMAIN H.arrs[v.r].el : i < v.n}, dst),
              v |-> dst]
    ELSE [H |-> H, v |-> v]

(* The copy loop when a key already in dst is left alone *)
copyKeys_keepExisting(H, src, keys, dst) ==
    LET old == H.maps[dst.r]
    IN  [H EXCEPT !.maps[dst.r] =
            [k \in (DOMAIN old) \cup keys |->
                IF k \in DOMAIN old THEN old[k] ELSE H.maps[src.r][k]]]

RECURSIVE copyKeys(_, _, _, _)
(* for k, v := range obj { result[k] = v } *)
copyKeys(H, src, keys, dst) ==
    IF keys = {} THEN H
    ELSE LET k == CHOOSE x \in keys : TRUE
         IN  copyKeys(MapPut(H, dst, k, H.maps[src.r][k]), src, keys \ {k}, dst)

RECURSIVE deepMerge(_, _, _)
RECURSIVE mergeKeys(_, _, _, _)
RECURSIVE mergeKeys_shallow(_, _, _, _)

(* The merge loop when a key present on both sides is never merged *)
mergeKeys_shallow(H, src, keys, dst) ==
    IF keys = {} THEN H
    ELSE LET k == CHOOSE x \in keys : TRUE
             m == deepClone(H, H.maps[src.r][k])
         IN  mergeKeys_shallow(MapPut(m.H, dst, k, m.v), src, keys \ {k}, dst)


mergeKeys(H, src, keys, dst) ==
    IF keys = {} THEN H
    ELSE LET k == CHOOSE x \in keys : TRUE
             m == IF MapHas(H, dst, k)
                  THEN deepMerge(H, H.maps[dst.r][k], H.maps[src.r][k])
                  ELSE deepClone(H, H.maps[src.r][k])
         IN  mergeKeys(MapPut(m.H, dst, k, m.v), src, keys \ {k}, dst)

(* deepMerge(dst, src): the heap afterwards and the merged value *)
deepMerge(H, dst, src) ==
    IF dst.t = "map" /\ src.t = "map"
    THEN LET res == MapRef(NewMapId(H))
             H1  == copyKeys(AllocMap(H, EmptyFn), dst, DOMAIN H.maps[dst.r], res)
         IN  [H |-> mergeKeys(H1, src, DOMAIN H.maps[src.r], res), v |-> res]
    ELSE deepClone(H, src)

----------------------------------------------------------------------------
(* Native Go values as literals, and the tree a payload denotes *)

LObj(f) == [t |-> "map", kv |-> f]

LArr(s) == [t |-> "arr", el |-> s]

RECURSIVE Build(_, _)
RECURSIVE buildKeys(_, _, _, _)
RECURSIVE buildSlots(_, _, _, _)

buildKeys(H, f, keys, dst) ==
    IF keys = {} THEN H
    ELSE LET k == CHOOSE x \in keys : TRUE
             b == Build(H, f[k])
         IN  buildKeys(MapPut(b.H, dst, k, b.v), f, keys \ {k}, dst)

buildSlots(H, s, i, dst) ==
    IF i > Len(s) THEN H
    ELSE LET b == Build(H, s[i])
         IN  buildSlots(ArrPut(b.H, dst.r, i - 1, b.v), s, i + 1, dst)

(* A native map / slice literal handed to New, FromMap or FromSlice *)
Build(H, lit) ==
    IF lit.t = "map"
    THEN LET dst == MapRef(NewMapId(H))
         IN  [H |-> buildKeys(AllocMap(H, EmptyFn), lit.kv, DOMAIN lit.kv, dst),
              v |-> dst]
    ELSE IF lit.t = "arr"
    THEN LET dst == Slice(NewArrId(H), Len(lit.el))
         IN  [H |-> buildSlots(AllocArr(H, Len(lit.el), EmptyFn), lit.el, 1, dst),
              v |-> dst]
    ELSE [H |-> H, v |-> lit]

RECURSIVE Abs(_, _)
(* The JSON tree a payload denotes (what json.Marshal would walk) *)
Abs(H, v) ==
    IF v.t = "map"
    THEN LObj([k \in DOMAIN H.maps[v.r] |-> Abs(H, H.maps[v.r][k])])
    ELSE IF v.t = "arr"
    THEN LArr([i \in 1..v.n |-> Abs(H, ArrGet(H, v, i - 1))])
    ELSE v

----------------------------------------------------------------------------
(* Slice operations used by the array methods *)

PutMany(el, base, vals) ==
    LET span == {base + i - 1 : i \in 1..Len(vals)}
        full == {k \in span : vals[k - base + 1] # Nil}
    IN  [k \in ((DOMAIN el) \ span) \cup full |->
            IF k \in span THEN vals[k - base + 1] ELSE el[k]]

(* append(arr, values...) *)
AppendSlice(H, s, vals) ==
    LET need == s.n + Len(vals)
        cap  == Cap(H, s)
        old  == H.arrs[s.r].el
        kept == [k \in {x \in DOMAIN old : x < s.n} |-> old[k]]
    IN  IF need <= cap
        THEN [H |-> [H EXCEPT !.arrs[s.r].el = PutMany(old, s.n, vals)],
              s |-> Slice(s.r, need)]
        ELSE [H |-> AllocArr(H, GrowCap(cap, need), PutMany(kept, s.n, vals)),
              s |-> Slice(NewArrId(H), need)]

(* append(values, arr...) where values is the fresh variadic slice *)
PrependSlice(H, s, vals) ==
    LET k    == Len(vals)
        old  == H.arrs[s.r].el
        tail == [i \in {x + k : x \in {y \in DOMAIN old : y < s.n}} |-> old[i - k]]
        cap  == IF s.n = 0 THEN k ELSE GrowCap(k, k + s.n)
    IN  [H |-> AllocArr(H, cap, PutMany(tail, 0, vals)),
         s |-> Slice(NewArrId(H), k + s.n)]

(* Remove that only shortens the slice *)
RemoveSlice_noShift(H, s, index) == [H |-> H, s |-> Slice(s.r, s.n - 1)]

(* append(arr[:index], arr[index+1:]...): shifts the tail down in place *)
RemoveSlice(H, s, index) ==
    LET old == H.arrs[s.r].el
        at(i) == IF i \in DOMAIN old THEN old[i] ELSE Nil
        new(i) == IF i >= index /\ i < s.n - 1 THEN at(i + 1) ELSE at(i)
        cand == (DOMAIN old) \cup {i - 1 : i \in DOMAIN old}
        dom == {i \in cand : i >= 0 /\ new(i) # Nil}
    IN  [H |-> [H EXCEPT !.arrs[s.r].el = [i \in dom |-> new(i)]],
         s |-> Slice(s.r, s.n - 1)]

----------------------------------------------------------------------------
(* Callbacks handed to Map and Filter *)

MapFns == {"ident", "const"}

Preds == {"nonNil", "none"}

ApplyFn(fn, key, item) ==
    IF fn = "ident" THEN item
    ELSE IF fn = "tag" THEN (IF item.t = "str" THEN Str(item.r + 10) ELSE item)
    ELSE Str(9)

ApplyPred(pr, key, item) ==
    \/ pr = "nonNil" /\ item # Nil
    \/ pr = "notS0" /\ item # Str(0)

RECURSIVE mapKeys(_, _, _, _, _)
mapKeys(H, src, keys, dst, fn) ==
    IF keys = {} THEN H
    ELSE LET k == CHOOSE x \in keys : TRUE
         IN  mapKeys(MapPut(H, dst, k, ApplyFn(fn, k, H.maps[src.r][k])),
                     src, keys \ {k}, dst, fn)

(* The elements of slice s as a sequence *)
Elems(H, s) == [i \in 1..s.n |-> ArrGet(H, s, i - 1)]

(* make + fill: a fresh backing array holding exactly seq *)
AllocSeq(H, seq, cap) == AllocArr(H, cap, PutMany(EmptyFn, 0, seq))

(* Filter that hands back the kept elements last first *)
FilterSeq_reversed(seq, pr) ==
    LET T(e) == ApplyPred(pr, "", e)
        f    == SelectSeq(seq, T)
    IN  [i \in 1..Len(f) |-> f[Len(f) + 1 - i]]

(* The elements of seq the predicate keeps, in their order *)
FilterSeq(seq, pr) ==
    LET keep == {i \in 1..Len(seq) : ApplyPred(pr, Itoa(i - 1), seq[i])}
        nth(r) == CHOOSE i \in keep : Cardinality({j \in keep : j < i}) = r - 1
    IN  [r \in 1..Cardinality(keep) |-> seq[nth(r)]]

(* Capacity of a slice built by appending n elements one at a time to make(.., 0) *)
BuiltCap(n) == FinalCap(0, n)

----------------------------------------------------------------------------
(* The state machine: calls on the handles the caller holds *)

S0 == Str(0)

Values == {Str(1), Nil}

K_a == <<"a">>

K_b == <<"b">>

P_empty == <<>>

P_a == <<"a">>

P_ab == <<"a", ".", "b">>

P_a0 == <<"a", ".", "0">>

P_a01 == <<"a", ".", "0", ".", "1">>

P_0 == <<"0">>

P_neg == <<"-", "2">>

P_0neg == <<"0", ".", "-", "2">>

P_big == <<"1", "0", "0", "0", "0">>

P_top == <<"9", "9", "9", "9">>

P_abig == <<"a", ".", "1", "0", "0", "0", "0">>

Paths == {P_empty, P_a, P_ab, P_a0, P_a01, P_0, P_neg, P_0neg}

(* Paths that reach the growth cap *)
CapPaths == {P_big, P_abig, P_top, P_0, P_a}

(* Payloads the root handle is constructed with (New / Object / Array / FromMap / FromSlice) *)
InitTrees ==
    { Nil, S0, LObj(EmptyFn), LArr(<<>>),
      LObj([k \in {K_a} |-> LArr(<<LArr(<<S0>>)>>)]),
      LObj([k \in {K_a} |-> LObj([x \in {K_b} |-> S0])]),
      LArr(<<Nil, S0>>) }

(* What an accessor returned: its Go type, and the number or the text *)
Ret(k, i, str) == [k |-> k, i |-> i, s |-> str]

NoRet == Ret("none", 0, <<>>)

NoCall == [op |-> "none", recv |-> 0, path |-> <<>>, val |-> Nil, idx |-> 0,
           other |-> 0, fn |-> "", res |-> 0, flag |-> FALSE, fields |-> <<>>,
           ret |-> NoRet]

Call(op, recv, res) == [NoCall EXCEPT !.op = op, !.recv = recv, !.res = res]

JS(data, err, fam) == [data |-> data, err |-> err, fam |-> fam]

NoFlat == [phase |-> "start", flat |-> EmptyFn, order |-> <<>>]

(* No Builder in use *)
NoBuilder == [kind |-> "none", added |-> EmptyFn, appended |-> <<>>, built |-> FALSE]

(* No token generated, nothing parsed *)
NoToken == [phase |-> "none"]

(* No EnumRegistry in use *)
NoRegistry == [phase |-> "none"]

(* New(data) etc., or Parse of a malformed text (err set, data nil) *)
Init ==
    /\ \E t \in InitTrees, e \in {NoErr, "ParseError"} :
          /\ e # NoErr => t = Nil
          /\ LET b == Build([maps |-> <<>>, arrs |-> <<>>], t)
             IN  /\ maps = b.H.maps
                 /\ arrs = b.H.arrs
                 /\ js = <<JS(b.v, e, "v")>>
    /\ hd = [v |-> 1, c |-> 0, h |-> 0]
    /\ last = NoCall
    /\ prev = NoCall
    /\ uf = NoFlat
    /\ bd = NoBuilder
    /\ tk = NoToken
    /\ reg = NoRegistry
    /\ steps = 0
    /\ aborted = FALSE

Recv == {hd.v, hd.c, hd.h} \ {0}

CanCall == steps < MaxSteps /\ ~aborted

(* A call returned: the heap, the structs, the returned handle *)
Return(H, newjs, rec) ==
    /\ maps' = H.maps
    /\ arrs' = H.arrs
    /\ js' = newjs
    /\ hd' = [hd EXCEPT !.h = rec.res]
    /\ last' = rec
    /\ prev' = last
    /\ uf' = uf
    /\ bd' = bd
    /\ tk' = tk
    /\ reg' = reg
    /\ steps' = steps + 1
    /\ aborted' = FALSE

(* A call panicked *)
Panic(H, rec) ==
    /\ maps' = H.maps
    /\ arrs' = H.arrs
    /\ last' = rec
    /\ prev' = last
    /\ uf' = uf
    /\ bd' = bd
    /\ tk' = tk
    /\ reg' = reg
    /\ steps' = steps + 1
    /\ aborted' = TRUE
    /\ UNCHANGED <<js, hd>>

NewPtr == Len(js) + 1

(* func (j *JSON) Get(path string) *JSON *)
Get(p, path) ==
    /\ CanCall
    /\ LET rec == [Call("Get", p, p) EXCEPT !.path = path]
           g   == getByPath(Heap, js[p].data, path)
       IN  IF js[p].err # NoErr THEN Return(Heap, js, rec)
           ELSE Return(Heap, Append(js, JS(g.v, g.err, js[p].fam)),
                       [rec EXCEPT !.res = NewPtr])

(* func (j *JSON) Set(path string, value interface{}) *JSON *)
Set(p, path, value) ==
    /\ CanCall
    /\ LET rec == [Call("Set", p, p) EXCEPT !.path = path, !.val = value]
           r   == setByPath(Heap, js[p].data, path, value)
       IN  IF js[p].err # NoErr THEN Return(Heap, js, rec)
           ELSE IF r.panic THEN Panic(r.H, rec)
           ELSE Return(r.H,
                       Append([js EXCEPT ![p].data = r.data],
                              JS(r.data, r.err, js[p].fam)),
                       [rec EXCEPT !.res = NewPtr])

(* func (j *JSON) Delete(path string) *JSON *)
Delete(p, path) ==
    /\ CanCall
    /\ LET rec == [Call("Delete", p, p) EXCEPT !.path = path]
           d   == deleteByPath(Heap, js[p].data, path)
       IN  IF js[p].err # NoErr THEN Return(Heap, js, rec)
           ELSE Return(d.H,
                       Append([js EXCEPT ![p].data = d.data],
                              JS(d.data, d.err, js[p].fam)),
                       [rec EXCEPT !.res = NewPtr])

(* func (j *JSON) Has(path string) bool *)
HasResult(H, j, path) == j.err = NoErr /\ getByPath(H, j.data, path).err = NoErr

Has(p, path) ==
    /\ CanCall
    /\ maps' = maps /\ arrs' = arrs /\ js' = js /\ hd' = hd
    /\ last' = [Call("Has", p, 0) EXCEPT !.path = path,
                                           !.flag = HasResult(Heap, js[p], path)]
    /\ prev' = last
    /\ uf' = uf
    /\ bd' = bd
    /\ tk' = tk
    /\ reg' = reg
    /\ steps' = steps + 1
    /\ aborted' = FALSE

(* NotArray that drops the payload, as Index does *)
NotArray_dropPayload(j) == JS(Nil, "TypeMismatch", j.fam)

(* return &JSON{data: j.data, err: fmt.Errorf("not an array")} *)
NotArray(j) == JS(j.data, "TypeMismatch", j.fam)

(* Index without the lower bound test *)
IndexResult_noLowerBound(H, j, i) ==
    IF j.data.t # "arr" THEN JS(Nil, "TypeMismatch", j.fam)
    ELSE IF i >= j.data.n THEN JS(Nil, "IndexOutOfRange", j.fam)
    ELSE JS(ArrGet(H, j.data, i), NoErr, j.fam)

(* The struct Index builds for a receiver that is not in the error state *)
IndexResult(H, j, i) ==
    IF j.data.t # "arr" THEN JS(Nil, "TypeMismatch", j.fam)
    ELSE IF i < 0 \/ i >= j.data.n THEN JS(Nil, "IndexOutOfRange", j.fam)
    ELSE JS(ArrGet(H, j.data, i), NoErr, j.fam)

(* func (j *JSON) Index(i int) *JSON *)
Index(p, i) ==
    /\ CanCall
    /\ LET rec == [Call("Index", p, p) EXCEPT !.idx = i]
           out == IndexResult(Heap, js[p], i)
       IN  IF js[p].err # NoErr THEN Return(Heap, js, rec)
           ELSE Return(Heap, Append(js, out), [rec EXCEPT !.res = NewPtr])

(* func (j *JSON) Append(values ...interface{}) *JSON *)
AppendCall(p, vals) ==
    /\ CanCall
    /\ LET rec == [Call("Append", p, p) EXCEPT !.val = vals[1], !.idx = Len(vals)]
           d   == js[p].data
           a   == AppendSlice(Heap, d, vals)
       IN  IF js[p].err # NoErr THEN Return(Heap, js, rec)
           ELSE IF d.t # "arr"
           THEN Return(Heap, Append(js, NotArray(js[p])),
                       [rec EXCEPT !.res = NewPtr])
           ELSE Return(a.H, [js EXCEPT ![p].data = a.s], rec)

(* func (j *JSON) Prepend(values ...interface{}) *JSON *)
Prepend(p, vals) ==
    /\ CanCall
    /\ LET rec == [Call("Prepend", p, p) EXCEPT !.val = vals[1], !.idx = Len(vals)]
           d   == js[p].data
           a   == PrependSlice(Heap, d, vals)
       IN  IF js[p].err # NoErr THEN Return(Heap, js, rec)
           ELSE IF d.t # "arr"
           THEN Return(Heap, Append(js, NotArray(js[p])),
                       [rec EXCEPT !.res = NewPtr])
           ELSE Return(a.H, [js EXCEPT ![p].data = a.s], rec)

(* func (j *JSON) Remove(index int) *JSON *)
Remove(p, i) ==
    /\ CanCall
    /\ LET rec == [Call("Remove", p, p) EXCEPT !.idx = i]
           d   == js[p].data
           a   == RemoveSlice(Heap, d, i)
       IN  IF js[p].err # NoErr THEN Return(Heap, js, rec)
           ELSE IF d.t # "arr"
           THEN Return(Heap, Append(js, NotArray(js[p])),
                       [rec EXCEPT !.res = NewPtr])
           ELSE IF i < 0 \/ i >= d.n
           THEN Return(Heap, Append(js, JS(d, "IndexOutOfRange", js[p].fam)),
                       [rec EXCEPT !.res = NewPtr])
           ELSE Return(a.H, [js EXCEPT ![p].data = a.s], rec)

(* func (j *JSON) ForEach(fn) *JSON: the callbacks of the model only read *)
ForEach(p) ==
    /\ CanCall
    /\ Return(Heap, js, Call("ForEach", p, p))

(* func (j *JSON) Map(fn) *JSON *)
MapCall(p, fn) ==
    /\ CanCall
    /\ LET rec == [Call("Map", p, p) EXCEPT !.fn = fn]
           d   == js[p].data
           seq == Elems(Heap, d)
           res == [i \in 1..Len(seq) |-> ApplyFn(fn, Itoa(i - 1), seq[i])]
           dst == MapRef(NewMapId(Heap))
       IN  IF js[p].err # NoErr THEN Return(Heap, js, rec)
           ELSE IF d.t = "arr"
           THEN Return(AllocSeq(Heap, res, Len(res)),
                       Append(js, JS(Slice(NewArrId(Heap), Len(res)), NoErr, js[p].fam)),
                       [rec EXCEPT !.res = NewPtr])
           ELSE IF d.t = "map"
           THEN Return(mapKeys(AllocMap(Heap, EmptyFn), d, DOMAIN maps[d.r], dst, fn),
                       Append(js, JS(dst, NoErr, js[p].fam)),
                       [rec EXCEPT !.res = NewPtr])
           ELSE Return(Heap, js, rec)

(* func (j *JSON) Filter(fn) *JSON *)
Filter(p, pr) ==
    /\ CanCall
    /\ LET rec  == [Call("Filter", p, p) EXCEPT !.fn = pr]
           d    == js[p].data
           kept == FilterSeq(Elems(Heap, d), pr)
           keys == {k \in DOMAIN maps[d.r] : ApplyPred(pr, k, maps[d.r][k])}
           dst  == MapRef(NewMapId(Heap))
       IN  IF js[p].err # NoErr THEN Return(Heap, js, rec)
           ELSE IF d.t = "arr"
           THEN Return(AllocSeq(Heap, kept, BuiltCap(Len(kept))),
                       Append(js, JS(Slice(NewArrId(Heap), Len(kept)), NoErr, js[p].fam)),
                       [rec EXCEPT !.res = NewPtr])
           ELSE IF d.t = "map"
           THEN Return(copyKeys(AllocMap(Heap, EmptyFn), d, keys, dst),
                       Append(js, JS(dst, NoErr, js[p].fam)),
                       [rec EXCEPT !.res = NewPtr])
           ELSE Return(Heap, js, rec)

(* Lineage of a value built from two handles *)
Mix(f, g) == IF f = g THEN f ELSE "x"

(* Clone of an error-state value that forgets the error *)
CloneOfError_dropErr(j) == JS(Nil, NoErr, IF j.fam = "v" THEN "c" ELSE "x")

(* if j.err != nil { return &JSON{err: j.err} } *)
CloneOfError(j) == JS(Nil, j.err, IF j.fam = "v" THEN "c" ELSE "x")

(* func (j *JSON) Clone() *JSON: the clone goes to the caller's handle c *)
Clone(p) ==
    /\ CanCall
    /\ LET c   == deepClone(Heap, js[p].data)
           fam == IF js[p].fam = "v" THEN "c" ELSE "x"
           out == IF js[p].err # NoErr THEN CloneOfError(js[p])
                  ELSE JS(c.v, NoErr, fam)
           H   == IF js[p].err # NoErr THEN Heap ELSE c.H
       IN  /\ maps' = H.maps
           /\ arrs' = H.arrs
           /\ js' = Append(js, out)
           /\ hd' = [hd EXCEPT !.c = NewPtr]
           /\ last' = Call("Clone", p, NewPtr)
           /\ prev' = last
           /\ uf' = uf
           /\ bd' = bd
           /\ tk' = tk
           /\ reg' = reg
           /\ steps' = steps + 1
           /\ aborted' = FALSE

(* func (j *JSON) Merge(other *JSON) *JSON *)
Merge(p, o) ==
    /\ CanCall
    /\ LET rec == [Call("Merge", p, p) EXCEPT !.other = o]
           d   == js[p].data
           e   == js[o].data
           fam == Mix(js[p].fam, js[o].fam)
           dst == MapRef(NewMapId(Heap))
           H1  == copyKeys(AllocMap(Heap, EmptyFn), d, DOMAIN maps[d.r], dst)
           H2  == copyKeys(H1, e, DOMAIN maps[e.r], dst)
       IN  IF js[p].err # NoErr THEN Return(Heap, js, rec)
           ELSE IF js[o].err # NoErr
           THEN Return(Heap, Append(js, JS(d, js[o].err, fam)),
                       [rec EXCEPT !.res = NewPtr])
           ELSE IF d.t # "map" \/ e.t # "map"
           THEN Return(Heap, Append(js, JS(d, "TypeMismatch", fam)),
                       [rec EXCEPT !.res = NewPtr])
           ELSE Return(H2, Append(js, JS(dst, NoErr, fam)),
                       [rec EXCEPT !.res = NewPtr])

(* func (j *JSON) DeepMerge(other *JSON) *JSON *)
DeepMerge(p, o) ==
    /\ CanCall
    /\ LET rec == [Call("DeepMerge", p, p) EXCEPT !.other = o]
           d   == js[p].data
           fam == Mix(js[p].fam, js[o].fam)
           m   == deepMerge(Heap, d, js[o].data)
       IN  IF js[p].err # NoErr THEN Return(Heap, js, rec)
           ELSE IF js[o].err # NoErr
           THEN Return(Heap, Append(js, JS(d, js[o].err, fam)),
                       [rec EXCEPT !.res = NewPtr])
           ELSE Return(m.H, Append(js, JS(m.v, NoErr, fam)),
                       [rec EXCEPT !.res = NewPtr])

(* Arguments of Index: negative, in range, past the end, and far past the end *)
Indexes == {-1, 0, 1, BigIndex}

Next ==
    \/ \E p \in Recv, path \in Paths : Get(p, path)
    \/ \E p \in Recv, path \in Paths, x \in Values : Set(p, path, x)
    \/ \E p \in Recv, path \in Paths : Delete(p, path)
    \/ \E p \in Recv, path \in Paths : Has(p, path)
    \/ \E p \in Recv, i \in Indexes : Index(p, i)
    \/ \E p \in Recv, x \in Values : AppendCall(p, <<x>>)
    \/ \E p \in Recv, x \in Values : Prepend(p, <<x>>)
    \/ \E p \in Recv, i \in {-1, 0, 1} : Remove(p, i)
    \/ \E p \in Recv : ForEach(p)
    \/ \E p \in Recv, fn \in MapFns : MapCall(p, fn)
    \/ \E p \in Recv, pr \in Preds : Filter(p, pr)
    \/ \E p \in Recv : Clone(p)
    \/ \E p \in Recv, o \in Recv : Merge(p, o)
    \/ \E p \in Recv, o \in Recv : DeepMerge(p, o)

Spec == Init /\ [][Next]_vars

(* Set and Get alone, on paths around the growth cap *)
NextCap ==
    \/ \E p \in Recv, path \in CapPaths, x \in Values : Set(p, path, x)
    \/ \E p \in Recv, path \in CapPaths : Get(p, path)

SpecCap == Init /\ [][NextCap]_vars

----------------------------------------------------------------------------
(* Flatten and Unflatten *)

JoinKey(prefix, k) == IF prefix = <<>> THEN k ELSE prefix \o <<".">> \o k

RECURSIVE flattenRecursive(_, _, _, _)
RECURSIVE flattenKeys(_, _, _, _, _)
RECURSIVE flattenSlots(_, _, _, _, _)

flattenKeys(H, m, keys, prefix, result) ==
    IF keys = {} THEN result
    ELSE LET k == CHOOSE x \in keys : TRUE
         IN  flattenKeys(H, m, keys \ {k}, prefix,
                         flattenRecursive(H, H.maps[m.r][k], JoinKey(prefix, k), result))

flattenSlots(H, s, i, prefix, result) ==
    IF i >= s.n THEN result
    ELSE flattenSlots(H, s, i + 1, prefix,
                      flattenRecursive(H, ArrGet(H, s, i), JoinKey(prefix, Itoa(i)), result))

(* flattenRecursive(data, prefix, result): result afterwards *)
flattenRecursive(H, data, prefix, result) ==
    IF data.t = "map" THEN flattenKeys(H, data, DOMAIN H.maps[data.r], prefix, result)
    ELSE IF data.t = "arr" THEN flattenSlots(H, data, 0, prefix, result)
    ELSE [x \in (DOMAIN result) \cup {prefix} |-> IF x = prefix THEN data ELSE result[x]]

(* func Flatten(j *JSON) map[string]interface{} *)
Flatten(H, data) == flattenRecursive(H, data, <<>>, EmptyFn)

RECURSIVE replay(_, _, _, _)
(* for path, value := range flat { result.Set(path, value) }, in the order taken *)
replay(H, data, flat, order) ==
    IF order = <<>> THEN [H |-> H, data |-> data, err |-> NoErr]
    ELSE CHOOSE out \in
            { IF p.rest.err # NoErr THEN p.rest ELSE [p.rest EXCEPT !.err = p.err]
              : p \in { [err |-> r.err, rest |-> replay(r.H, r.data, flat, Tail(order))]
                        : r \in {setByPath(H, data, Head(order), flat[Head(order)])} } } : TRUE

(* The orders in which a Go map with key set S can be ranged over *)
Orders(S) ==
    {o \in [1..Cardinality(S) -> S] : \A x \in S : \E i \in 1..Cardinality(S) : o[i] = x}

(* Values handed to Flatten: nested Objects and Arrays with scalar leaves *)
FlatTrees ==
    { LObj(EmptyFn),
      LObj([k \in {K_a} |-> S0]),
      LObj([k \in {K_a} |-> LObj([x \in {K_b} |-> S0])]),
      LObj([k \in {K_a, K_b} |-> IF k = K_a THEN S0 ELSE LArr(<<Str(1), Str(2)>>)]),
      LObj([k \in {K_a, K_b} |->
              IF k = K_a THEN LObj([x \in {K_a, K_b} |-> S0]) ELSE Str(2)]),
      LObj([k \in {K_a} |-> LArr(<<S0, LArr(<<Str(1), Str(2)>>)>>)]),
      LObj([k \in {K_a} |-> LObj([x \in {K_b} |-> LArr(<<S0, Str(1), Str(2)>>)])]),
      LObj([k \in {K_a} |-> LArr(<<LObj([x \in {K_a} |-> LArr(<<S0, Str(1)>>)]),
                                   LObj([x \in {K_b} |-> Str(2)])>>)]),
      LObj([k \in {K_a} |-> LArr(<<Nil, Nil, S0>>)]),
      LArr(<<LArr(<<S0>>), LArr(<<Str(1), Str(2)>>)>>),
      LObj([k \in {K_a} |-> LArr(<<S0, Str(1), Str(2)>>)]),
      LObj([k \in {K_a} |-> LArr(<<LArr(<<S0, Str(1)>>)>>)]),
      LObj([k \in {K_a} |-> LArr(<<LArr(<<S0, Str(1)>>), LArr(<<Str(2)>>)>>)]),
      LObj([k \in {K_a} |-> LArr(<<LObj([x \in {K_b} |-> S0]),
                                   LObj([x \in {K_a, K_b} |-> Str(1)])>>)]),
      LObj([k \in {K_a, K_b} |->
              IF k = K_a THEN S0 ELSE LObj([x \in {K_a, K_b} |-> Str(1)])]),
      LObj([k \in {K_a, K_b} |->
              IF k = K_a THEN LArr(<<Nil, S0>>) ELSE LArr(<<Str(1)>>)]),
      LArr(<<S0, Str(1)>>),
      LArr(<<LObj([x \in {K_a} |-> S0]), LArr(<<Str(1), Str(2)>>)>>) }

InitFlat ==
    /\ \E t \in FlatTrees :
          LET b == Build([maps |-> <<>>, arrs |-> <<>>], t)
          IN  /\ maps = b.H.maps
              /\ arrs = b.H.arrs
              /\ js = <<JS(b.v, NoErr, "v")>>
    /\ hd = [v |-> 1, c |-> 0, h |-> 0]
    /\ last = NoCall
    /\ prev = NoCall
    /\ uf = NoFlat
    /\ bd = NoBuilder
    /\ tk = NoToken
    /\ reg = NoRegistry
    /\ steps = 0
    /\ aborted = FALSE

(* flat := Flatten(v) *)
FlattenCall ==
    /\ uf.phase = "start"
    /\ uf' = [uf EXCEPT !.phase = "flat", !.flat = Flatten(Heap, js[hd.v].data)]
    /\ UNCHANGED <<maps, arrs, js, hd, last, prev, steps, bd, tk, reg, aborted>>

(* func Unflatten(flat map[string]interface{}) *JSON *)
UnflattenCall(order) ==
    /\ uf.phase = "flat"
    /\ LET root == MapRef(NewMapId(Heap))
           r    == replay(AllocMap(Heap, EmptyFn), root, uf.flat, order)
       IN  /\ maps' = r.H.maps
           /\ arrs' = r.H.arrs
           /\ js' = Append(js, JS(r.data, NoErr, "x"))
           /\ hd' = [hd EXCEPT !.h = NewPtr]
    /\ uf' = [uf EXCEPT !.phase = "done", !.order = order]
    /\ UNCHANGED <<last, prev, steps, bd, tk, reg, aborted>>

NextFlat ==
    \/ FlattenCall
    \/ \E order \in Orders(DOMAIN uf.flat) : UnflattenCall(order)

SpecFlat == InitFlat /\ [][NextFlat]_vars

----------------------------------------------------------------------------
(* Filter, Map and Index on arrays of scalars *)

IterFns == MapFns \cup {"tag"}

IterPreds == Preds \cup {"notS0"}

IterElems == {Nil, Str(0), Str(1)}

MaxIterLen == 3

(* QuickArray(values...) *)
IterArrays == UNION {[1..n -> IterElems] : n \in 0..MaxIterLen}

InitIter ==
    /\ \E q \in IterArrays :
          LET b == Build([maps |-> <<>>, arrs |-> <<>>], LArr(q))
          IN  /\ maps = b.H.maps
              /\ arrs = b.H.arrs
              /\ js = <<JS(b.v, NoErr, "v")>>
    /\ hd = [v |-> 1, c |-> 0, h |-> 0]
    /\ last = NoCall
    /\ prev = NoCall
    /\ uf = NoFlat
    /\ bd = NoBuilder
    /\ tk = NoToken
    /\ reg = NoRegistry
    /\ steps = 0
    /\ aborted = FALSE

NextIter ==
    \/ \E p \in Recv, pr \in IterPreds : Filter(p, pr)
    \/ \E p \in Recv, fn \in IterFns : MapCall(p, fn)
    \/ \E p \in Recv, i \in {0, 1} : Index(p, i)

SpecIter == InitIter /\ [][NextIter]_vars

----------------------------------------------------------------------------
(* Merge and DeepMerge of two values *)

MergeTrees ==
    { S0,
      LArr(<<S0>>),
      LObj(EmptyFn),
      LObj([k \in {K_a} |-> S0]),
      LObj([k \in {K_a} |-> LObj([x \in {K_a} |-> S0])]),
      LObj([k \in {K_a, K_b} |-> IF k = K_a THEN LObj([x \in {K_b} |-> Str(1)]) ELSE S0]),
      LObj([k \in {K_a} |-> LArr(<<S0>>)]),
      LObj([k \in {K_a, K_b} |->
              IF k = K_a THEN LArr(<<Str(1)>>) ELSE LObj([x \in {K_a} |-> Str(1)])]),
      LObj([k \in {K_b} |->
              LObj([x \in {K_a, K_b} |->
                      IF x = K_a THEN S0 ELSE LObj([y \in {K_a} |-> S0])])]),
      LObj([k \in {K_b} |-> LObj([x \in {K_b} |-> LObj([y \in {K_b} |-> Str(1)])])]) }

(* a := New(t), b := New(u): handle v is a, handle c is b *)
InitMerge ==
    /\ \E t \in MergeTrees, u \in MergeTrees :
          LET a == Build([maps |-> <<>>, arrs |-> <<>>], t)
              b == Build(a.H, u)
          IN  /\ maps = b.H.maps
              /\ arrs = b.H.arrs
              /\ js = <<JS(a.v, NoErr, "v"), JS(b.v, NoErr, "x")>>
    /\ hd = [v |-> 1, c |-> 2, h |-> 0]
    /\ last = NoCall
    /\ prev = NoCall
    /\ uf = NoFlat
    /\ bd = NoBuilder
    /\ tk = NoToken
    /\ reg = NoRegistry
    /\ steps = 0
    /\ aborted = FALSE

NextMerge ==
    \/ \E p \in Recv, o \in Recv : Merge(p, o)
    \/ \E p \in Recv, o \in Recv : DeepMerge(p, o)

SpecMerge == InitMerge /\ [][NextMerge]_vars

----------------------------------------------------------------------------
(* Pick and Omit *)

MaxUtilSteps == 1

MaxFields == 2

RECURSIVE pickFields(_, _, _, _)
(* for _, field := range fields { if j.Has(field) { result.Set(field, j.Get(field).data) } } *)
pickFields(H, j, data, fields) ==
    IF fields = <<>> THEN [H |-> H, data |-> data, panic |-> FALSE]
    ELSE IF ~HasResult(H, j, Head(fields)) THEN pickFields(H, j, data, Tail(fields))
    ELSE CHOOSE out \in
            { IF r.panic THEN [H |-> r.H, data |-> r.data, panic |-> TRUE]
              ELSE pickFields(r.H, j, r.data, Tail(fields))
              : r \in {setByPath(H, data, Head(fields),
                                  getByPath(H, j.data, Head(fields)).v)} } : TRUE

(* The delete loop that stops after the first field *)
omitFields_firstOnly(H, data, fields) ==
    IF fields = <<>> THEN [H |-> H, data |-> data]
    ELSE CHOOSE out \in
            { [H |-> d.H, data |-> d.data]
              : d \in {deleteByPath(H, data, Head(fields))} } : TRUE

RECURSIVE omitFields(_, _, _)
(* for _, field := range fields { result.Delete(field) } *)
omitFields(H, data, fields) ==
    IF fields = <<>> THEN [H |-> H, data |-> data]
    ELSE CHOOSE out \in
            { omitFields(d.H, d.data, Tail(fields))
              : d \in {deleteByPath(H, data, Head(fields))} } : TRUE

CanCallUtil == steps < MaxUtilSteps /\ ~aborted

(* return &JSON{err: fmt.Errorf("not an object")} *)
NotObject == JS(Nil, "TypeMismatch", "x")

(* func Pick(j *JSON, fields ...string) *JSON *)
Pick(p, fields) ==
    /\ CanCallUtil
    /\ LET rec == [Call("Pick", p, NewPtr) EXCEPT !.fields = fields]
       IN  IF js[p].data.t # "map" THEN Return(Heap, Append(js, NotObject), rec)
           ELSE \E H0 \in {AllocMap(Heap, EmptyFn)} :
                \E r \in {pickFields(H0, js[p], MapRef(Len(H0.maps)), fields)} :
                   IF r.panic THEN Panic(r.H, [rec EXCEPT !.res = 0])
                   ELSE Return(r.H, Append(js, JS(r.data, NoErr, "x")), rec)

(* func Omit(j *JSON, fields ...string) *JSON *)
Omit(p, fields) ==
    /\ CanCallUtil
    /\ LET rec == [Call("Omit", p, NewPtr) EXCEPT !.fields = fields]
       IN  IF js[p].data.t # "map" THEN Return(Heap, Append(js, NotObject), rec)
           ELSE IF js[p].err # NoErr
           THEN Return(Heap, Append(js, JS(Nil, js[p].err, "x")), rec)
           ELSE \E c \in {deepClone(Heap, js[p].data)} :
                \E r \in {omitFields(c.H, c.v, fields)} :
                   Return(r.H, Append(js, JS(r.data, NoErr, "x")), rec)

UtilFields == {K_a, K_b, P_0, P_ab}

FieldLists == UNION {[1..n -> UtilFields] : n \in 0..MaxFields}

UtilTrees ==
    { LObj([k \in {K_a, K_b} |-> IF k = K_a THEN S0 ELSE Str(1)]),
      LObj([k \in {K_a, K_b} |-> IF k = K_a THEN LObj([x \in {K_b} |-> S0]) ELSE Nil]),
      LObj([k \in {K_a, P_0} |-> IF k = K_a THEN LArr(<<S0, Str(1)>>) ELSE Str(2)]),
      LObj([k \in {P_0} |-> LObj([x \in {K_b} |-> S0])]),
      LObj(EmptyFn),
      LArr(<<S0>>),
      S0 }

InitUtil ==
    /\ \E t \in UtilTrees :
          LET b == Build([maps |-> <<>>, arrs |-> <<>>], t)
          IN  /\ maps = b.H.maps
              /\ arrs = b.H.arrs
              /\ js = <<JS(b.v, NoErr, "v")>>
    /\ hd = [v |-> 1, c |-> 0, h |-> 0]
    /\ last = NoCall
    /\ prev = NoCall
    /\ uf = NoFlat
    /\ bd = NoBuilder
    /\ tk = NoToken
    /\ reg = NoRegistry
    /\ steps = 0
    /\ aborted = FALSE

NextUtil ==
    \/ \E p \in Recv, fields \in FieldLists : Pick(p, fields)
    \/ \E p \in Recv, fields \in FieldLists : Omit(p, fields)

SpecUtil == InitUtil /\ [][NextUtil]_vars

----------------------------------------------------------------------------
(* Typed scalars and the accessors String, Int, Int64, Float64, Bool, Length *)

IntKinds == {"int", "int8", "int16", "int32", "int64",
             "uint", "uint8", "uint16", "uint32", "uint64"}

FloatKinds == {"float32", "float64"}

(* A native number: r is the value, in tenths for the float kinds *)
Num(kind, v) == [t |-> kind, r |-> v, n |-> 0]

BoolV(b) == [t |-> "bool", r |-> IF b THEN 1 ELSE 0, n |-> 0]

(* The text of string number x: a few strings that parse, "s<x>" otherwise *)
StrChars(x) ==
    CASE x = 100 -> <<"4", "2">>
      [] x = 101 -> <<"t", "r", "u", "e">>
      [] x = 102 -> <<"-", "7">>
      [] x = 103 -> <<>>
      [] x = 104 -> <<"2", ".", "5">>
      [] OTHER   -> <<"s">> \o Itoa(x)

(* func (j *JSON) IsNumber() bool *)
IsNumber(d) == d.t \in IntKinds \cup FloatKinds

(* int(v) for a float64 v given in tenths: truncation toward zero *)
Trunc(f) == IF f >= 0 THEN f \div 10 ELSE 0 - ((0 - f) \div 10)

FormatInt(n) == IF n < 0 THEN <<"-">> \o Itoa(0 - n) ELSE Itoa(n)

(* strconv.ParseFloat on the texts of the model: digits with an optional
   sign and an optional single decimal; the value in tenths *)
ParseFloat(str) ==
    LET parts == Split(str)
        whole == Atoi(parts[1])
        frac  == IF Len(parts) = 2 THEN parts[2] ELSE <<"0">>
        neg   == str # <<>> /\ Head(str) = "-"
    IN  IF Len(parts) > 2 \/ ~whole.ok \/ Len(frac) # 1 \/ ~IsDigit(frac[1])
        THEN [ok |-> FALSE, n |-> 0]
        ELSE [ok |-> TRUE,
              n  |-> IF neg THEN 10 * whole.n - DigitVal(frac[1])
                     ELSE 10 * whole.n + DigitVal(frac[1])]

(* fmt.Sprintf("%v", v) for scalars; a container prints as a non-empty text
   that starts with "[" or "map[" *)
Sprintf(d) ==
    IF d.t \in IntKinds THEN FormatInt(d.r)
    ELSE IF d.t \in FloatKinds
    THEN FormatInt(Trunc(d.r))
         \o (IF d.r % 10 = 0 THEN <<>>
             ELSE <<".">> \o Itoa((IF d.r < 0 THEN 0 - d.r ELSE d.r) % 10))
    ELSE IF d.t = "bool" THEN (IF d.r = 1 THEN <<"t", "r", "u", "e">>
                               ELSE <<"f", "a", "l", "s", "e">>)
    ELSE IF d.t = "arr" THEN <<"[", "]">>
    ELSE <<"m", "a", "p", "[", "]">>

(* Length that does not look at the error slot *)
LengthOf_noGuard(H, j) ==
    LET d == j.data
    IN  IF d.t = "arr" THEN Ret("int", d.n, <<>>)
        ELSE IF d.t = "map" THEN Ret("int", Cardinality(DOMAIN H.maps[d.r]), <<>>)
        ELSE IF d.t = "str" THEN Ret("int", Len(StrChars(d.r)), <<>>)
        ELSE Ret("int", 0, <<>>)

(* func (j *JSON) String() string *)
StringOf(j) ==
    LET d == j.data
    IN  IF j.err # NoErr THEN Ret("string", 0, <<>>)
        ELSE IF d.t = "str" THEN Ret("string", 0, StrChars(d.r))
        ELSE IF d.t = "nil" THEN Ret("string", 0, <<>>)
        ELSE Ret("string", 0, Sprintf(d))

(* func (j *JSON) Int() int *)
IntOf(j) ==
    LET d == j.data
    IN  IF j.err # NoErr THEN Ret("int", 0, <<>>)
        ELSE IF d.t = "int" THEN Ret("int", d.r, <<>>)
        ELSE IF d.t = "float64" THEN Ret("int", Trunc(d.r), <<>>)
        ELSE IF d.t = "str" /\ Atoi(StrChars(d.r)).ok
        THEN Ret("int", Atoi(StrChars(d.r)).n, <<>>)
        ELSE Ret("int", 0, <<>>)

(* func (j *JSON) Int64() int64 *)
Int64Of(j) ==
    LET d == j.data
    IN  IF j.err # NoErr THEN Ret("int64", 0, <<>>)
        ELSE IF d.t \in {"int64", "int"} THEN Ret("int64", d.r, <<>>)
        ELSE IF d.t = "float64" THEN Ret("int64", Trunc(d.r), <<>>)
        ELSE IF d.t = "str" /\ Atoi(StrChars(d.r)).ok
        THEN Ret("int64", Atoi(StrChars(d.r)).n, <<>>)
        ELSE Ret("int64", 0, <<>>)

(* func (j *JSON) Float64() float64: the result in tenths *)
Float64Of(j) ==
    LET d == j.data
    IN  IF j.err # NoErr THEN Ret("float64", 0, <<>>)
        ELSE IF d.t = "float64" THEN Ret("float64", d.r, <<>>)
        ELSE IF d.t = "int" THEN Ret("float64", 10 * d.r, <<>>)
        ELSE IF d.t = "str" /\ ParseFloat(StrChars(d.r)).ok
        THEN Ret("float64", ParseFloat(StrChars(d.r)).n, <<>>)
        ELSE Ret("float64", 0, <<>>)

(* func (j *JSON) Bool() bool: 1 for true *)
BoolOf(j) ==
    LET d == j.data
        b == \/ d.t = "bool" /\ d.r = 1
             \/ d.t = "str" /\ StrChars(d.r) = <<"t", "r", "u", "e">>
             \/ d.t \in {"int", "float64"} /\ d.r # 0
    IN  IF j.err = NoErr /\ b THEN Ret("bool", 1, <<>>) ELSE Ret("bool", 0, <<>>)

(* func (j *JSON) Length() int *)
LengthOf(H, j) ==
    LET d == j.data
    IN  IF j.err # NoErr THEN Ret("int", 0, <<>>)
        ELSE IF d.t = "arr" THEN Ret("int", d.n, <<>>)
        ELSE IF d.t = "map" THEN Ret("int", Cardinality(DOMAIN H.maps[d.r]), <<>>)
        ELSE IF d.t = "str" THEN Ret("int", Len(StrChars(d.r)), <<>>)
        ELSE Ret("int", 0, <<>>)

(* An accessor returned ret: nothing else changes *)
Answer(op, p, ret) ==
    /\ CanCall
    /\ last' = [Call(op, p, 0) EXCEPT !.ret = ret]
    /\ prev' = last
    /\ steps' = steps + 1
    /\ aborted' = FALSE
    /\ UNCHANGED <<maps, arrs, js, hd, uf, bd, tk, reg>>

StringCall(p) == Answer("String", p, StringOf(js[p]))

IntCall(p) == Answer("Int", p, IntOf(js[p]))

Int64Call(p) == Answer("Int64", p, Int64Of(js[p]))

Float64Call(p) == Answer("Float64", p, Float64Of(js[p]))

BoolCall(p) == Answer("Bool", p, BoolOf(js[p]))

LengthCall(p) == Answer("Length", p, LengthOf(Heap, js[p]))

AccScalars ==
    {Num(k, 5) : k \in IntKinds} \cup {Num(k, 25) : k \in FloatKinds}
    \cup {Num("int", -3), Num("float64", -25), Num("int", 0), BoolV(TRUE), BoolV(FALSE), Nil}
    \cup {Str(x) : x \in {0, 100, 101, 102, 103, 104}}

AccTrees ==
    AccScalars \cup {LArr(<<Num("int64", 5), S0>>), LObj([k \in {K_a} |-> Num("int", 5)])}

(* New(data), or Parse of a malformed text *)
InitAcc ==
    /\ \E t \in AccTrees, e \in {NoErr, "ParseError"} :
          /\ e # NoErr => t = Nil
          /\ LET b == Build([maps |-> <<>>, arrs |-> <<>>], t)
             IN  /\ maps = b.H.maps
                 /\ arrs = b.H.arrs
                 /\ js = <<JS(b.v, e, "v")>>
    /\ hd = [v |-> 1, c |-> 0, h |-> 0]
    /\ last = NoCall
    /\ prev = NoCall
    /\ uf = NoFlat
    /\ bd = NoBuilder
    /\ tk = NoToken
    /\ reg = NoRegistry
    /\ steps = 0
    /\ aborted = FALSE

(* The accessors, after the calls that return an error-state value with a payload *)
NextAcc ==
    \/ \E p \in Recv : StringCall(p)
    \/ \E p \in Recv : IntCall(p)
    \/ \E p \in Recv : Int64Call(p)
    \/ \E p \in Recv : Float64Call(p)
    \/ \E p \in Recv : BoolCall(p)
    \/ \E p \in Recv : LengthCall(p)
    \/ \E p \in Recv, path \in {P_empty, P_a} : Has(p, path)
    \/ \E p \in Recv : AppendCall(p, <<S0>>)
    \/ \E p \in Recv : Remove(p, 2)
    \/ \E p \in Recv : Set(p, P_ab, S0)
    \/ \E p \in Recv : Merge(p, p)
    \/ \E p \in Recv : Get(p, P_a)

SpecAcc == InitAcc /\ [][NextAcc]_vars

----------------------------------------------------------------------------
(* Builder: js[1] is the *JSON the builder holds *)

MaxBuilderSteps == 3

BuilderKeys == {K_a, K_b, P_0}

BuilderValues == {S0, Num("int64", 5), Nil}

(* Field maps handed to AddMany / QuickObject: two keys each *)
FieldMaps ==
    UNION {[ks -> {S0, Num("int64", 5)}] :
             ks \in {x \in SUBSET BuilderKeys : Cardinality(x) = 2}}

(* func NewBuilder() *Builder, func NewArrayBuilder() *Builder *)
InitBuilder ==
    /\ \E k \in {"object", "array"} :
          LET b == Build([maps |-> <<>>, arrs |-> <<>>],
                         IF k = "object" THEN LObj(EmptyFn) ELSE LArr(<<>>))
          IN  /\ maps = b.H.maps
              /\ arrs = b.H.arrs
              /\ js = <<JS(b.v, NoErr, "v")>>
              /\ bd = [NoBuilder EXCEPT !.kind = k]
    /\ tk = NoToken
    /\ reg = NoRegistry
    /\ hd = [v |-> 1, c |-> 0, h |-> 0]
    /\ last = NoCall
    /\ prev = NoCall
    /\ uf = NoFlat
    /\ steps = 0
    /\ aborted = FALSE

CanBuild == steps < MaxBuilderSteps /\ ~aborted /\ ~bd.built

(* A builder that chains: b.json = b.json.Set(key, value) *)
BuilderKeeps_chained(j, data, err) == JS(data, err, j.fam)

(* b.json.Set(key, value) as a statement: the receiver's data was written in
   place, and the *JSON the call returns, with its err, is dropped *)
BuilderKeeps(j, data, err) == [j EXCEPT !.data = data]

(* A builder method returned b: b.json now holds data *)
BuilderDone(H, data, err, rec, newbd) ==
    /\ maps' = H.maps
    /\ arrs' = H.arrs
    /\ js' = [js EXCEPT ![1] = BuilderKeeps(@, data, err)]
    /\ last' = rec
    /\ prev' = last
    /\ bd' = newbd
    /\ steps' = steps + 1
    /\ aborted' = FALSE
    /\ UNCHANGED <<hd, uf, tk, reg>>

(* b.json.Set(key, value); return b: AddString, AddInt, AddInt64, AddFloat,
   AddBool, AddObject, AddArray, AddRaw, AddNull *)
Add(key, value) ==
    /\ CanBuild
    /\ LET rec == [Call("Add", 1, 1) EXCEPT !.path = key, !.val = value]
       IN  \E r \in {setByPath(Heap, js[1].data, key, value)} :
              IF r.panic
              THEN /\ Panic(r.H, [rec EXCEPT !.res = 0])
              ELSE BuilderDone(r.H, r.data, r.err, rec,
                               [bd EXCEPT !.added = [k \in (DOMAIN @) \cup {key} |->
                                                       IF k = key THEN value ELSE @[k]]])

(* func (b *Builder) AddIf(condition bool, key string, value interface{}) *Builder,
   and AddStringIf *)
AddIf(condition, key, value) ==
    IF condition THEN Add(key, value)
    ELSE /\ CanBuild
         /\ BuilderDone(Heap, js[1].data, NoErr, [Call("AddIf", 1, 1) EXCEPT !.path = key], bd)

(* func (b *Builder) AddMany(fields map[string]interface{}) *Builder, in the
   order the map is ranged over *)
AddMany(fields, order) ==
    /\ CanBuild
    /\ \E r \in {replay(Heap, js[1].data, fields, order)} :
          BuilderDone(r.H, r.data, r.err, [Call("AddMany", 1, 1) EXCEPT !.fields = order],
                      [bd EXCEPT !.added = [k \in (DOMAIN @) \cup (DOMAIN fields) |->
                                              IF k \in DOMAIN fields THEN fields[k] ELSE @[k]]])

(* b.json.Append(values...); return b: AppendString, AppendInt, AppendFloat,
   AppendBool, AppendObject, AppendArray, AppendRaw, AppendNull, AppendMany *)
AppendMany(values) ==
    /\ CanBuild
    /\ LET rec == [Call("AppendMany", 1, 1) EXCEPT !.idx = Len(values)]
           nbd == [bd EXCEPT !.appended = @ \o values]
       IN  IF js[1].data.t # "arr" THEN BuilderDone(Heap, js[1].data, "TypeMismatch", rec, nbd)
           ELSE \E a \in {AppendSlice(Heap, js[1].data, values)} :
                   BuilderDone(a.H, a.s, NoErr, rec, nbd)

(* func (b *Builder) Build() *JSON *)
BuildCall ==
    /\ ~aborted /\ ~bd.built
    /\ hd' = [hd EXCEPT !.h = 1]
    /\ last' = Call("Build", 1, 1)
    /\ prev' = last
    /\ bd' = [bd EXCEPT !.built = TRUE]
    /\ UNCHANGED <<maps, arrs, js, steps, uf, tk, reg, aborted>>

NextBuilder ==
    \/ \E key \in BuilderKeys, value \in BuilderValues : Add(key, value)
    \/ \E c \in BOOLEAN, key \in BuilderKeys, value \in BuilderValues : AddIf(c, key, value)
    \/ \E fields \in FieldMaps : \E order \in Orders(DOMAIN fields) : AddMany(fields, order)
    \/ \E values \in {<<S0>>, <<Nil>>, <<Num("int64", 5), S0>>} : AppendMany(values)
    \/ BuildCall

SpecBuilder == InitBuilder /\ [][NextBuilder]_vars

----------------------------------------------------------------------------
(* Set and Get alone, over paths that fail after their first segments *)

P_aneg == <<"a", ".", "-", "2">>

P_a2 == <<"a", ".", "2">>

P_a0b == <<"a", ".", "0", ".", "b">>

SetPaths == Paths \cup {K_b, P_aneg, P_a2, P_a0b}

SetTrees ==
    InitTrees \cup
    { LObj([k \in {K_a, K_b} |-> IF k = K_a THEN LArr(<<S0>>) ELSE S0]),
      LObj([k \in {K_a, K_b} |-> IF k = K_a THEN LArr(<<LArr(<<S0>>), S0>>) ELSE S0]) }

InitSet ==
    /\ \E t \in SetTrees :
          LET b == Build([maps |-> <<>>, arrs |-> <<>>], t)
          IN  /\ maps = b.H.maps
              /\ arrs = b.H.arrs
              /\ js = <<JS(b.v, NoErr, "v")>>
    /\ hd = [v |-> 1, c |-> 0, h |-> 0]
    /\ last = NoCall
    /\ prev = NoCall
    /\ uf = NoFlat
    /\ bd = NoBuilder
    /\ tk = NoToken
    /\ reg = NoRegistry
    /\ steps = 0
    /\ aborted = FALSE

NextSet ==
    \/ \E path \in SetPaths, value \in Values : Set(hd.v, path, value)
    \/ \E path \in SetPaths : Get(hd.v, path)

SpecSet == InitSet /\ [][NextSet]_vars

----------------------------------------------------------------------------
(* DeepMerge of two values, then writes through the handle it returned *)

NextShare ==
    \/ \E p \in {hd.v, hd.c}, o \in {hd.v, hd.c} : DeepMerge(p, o)
    \/ \E path \in {P_ab, P_a0} : hd.h # 0 /\ Set(hd.h, path, Nil)
    \/ \E path \in {P_ab, P_a0} : hd.h # 0 /\ Delete(hd.h, path)

SpecShare == InitMerge /\ [][NextShare]_vars

----------------------------------------------------------------------------
(* Pick and Omit on inputs that may be in the error state *)

(* The argument j: New(t); Parse of a malformed text (err set, data nil); or
   what Append returned for an Object (err set, the Object kept as payload) *)
InitUtilErr ==
    /\ \E t \in UtilTrees \cup {Nil}, e \in {NoErr, "ParseError", "TypeMismatch"} :
          /\ e = "ParseError" => t = Nil
          /\ e = "TypeMismatch" => (t # Nil /\ t.t = "map")
          /\ LET b == Build([maps |-> <<>>, arrs |-> <<>>], t)
             IN  /\ maps = b.H.maps
                 /\ arrs = b.H.arrs
                 /\ js = <<JS(b.v, e, "v")>>
    /\ hd = [v |-> 1, c |-> 0, h |-> 0]
    /\ last = NoCall
    /\ prev = NoCall
    /\ uf = NoFlat
    /\ bd = NoBuilder
    /\ tk = NoToken
    /\ reg = NoRegistry
    /\ steps = 0
    /\ aborted = FALSE

SpecUtilErr == InitUtilErr /\ [][NextUtil]_vars

----------------------------------------------------------------------------
(* jwt: Generate, a token string in flight, Parse *)

MaxNow == 2

Algs == {"HS256", "HS384"}

Secrets == {"k1", "k2"}

(* A NumericDate claim: absent, or a JSON number given in tenths of a second *)
Absent == [has |-> FALSE, t |-> 0]

At(t) == [has |-> TRUE, t |-> t]

ClaimTimes == {Absent} \cup {At(t) : t \in {10, 15, 20, 25, 30}}

(* One dot-separated part of a token string, by what it decodes to: a header,
   a claims object, a signature, or something that does not decode *)
Part(k, alg, key, exp, nbf) == [k |-> k, alg |-> alg, key |-> key, exp |-> exp, nbf |-> nbf]

HeaderPart(alg) == Part("hdr", alg, "", Absent, Absent)

ClaimsPart(exp, nbf) == Part("claims", "", "", exp, nbf)

BadPart == Part("bad", "", "", Absent, Absent)

(* SigningMethodHMAC.Sign: the MAC of parts[0] + "." + parts[1] under key,
   taken as collision free: it determines the hash, the key and the text *)
Sign(method, h, c, key) ==
    [k |-> "sig", alg |-> method, key |-> key, exp |-> c.exp, nbf |-> c.nbf,
     halg |-> h.alg, hk |-> h.k, ck |-> c.k]

(* SigningMethodHMAC.Verify *)
Verify(method, h, c, signature, key) ==
    IF Sign(method, h, c, key) # signature THEN "ErrInvalidSignature" ELSE NoErr

(* func (m MapClaims) Valid() error: exp and nbf arrive as float64 *)
MapClaimsValid(c, now) ==
    IF c.exp.has /\ now > Trunc(c.exp.t) THEN "ErrTokenExpired"
    ELSE IF c.nbf.has /\ now < Trunc(c.nbf.t) THEN "ErrTokenNotYetValid"
    ELSE NoErr

Rejected(e) == [token |-> "nil", valid |-> FALSE, err |-> e]

Accepted == [token |-> "tok", valid |-> TRUE, err |-> NoErr]

(* func (j *JWT) ParseWithClaims(tokenString string, claims Claims), returning the token and the error,
   with claims a MapClaims as Parse passes it *)
ParseWithClaims(method, key, parts, now) ==
    IF Len(parts) # 3 THEN Rejected("ErrInvalidToken")
    ELSE IF parts[1].k # "hdr" THEN Rejected("DecodeError")
    ELSE IF parts[1].alg # method THEN Rejected("UnexpectedMethod")
    ELSE IF parts[2].k # "claims" THEN Rejected("DecodeError")
    ELSE IF Verify(method, parts[1], parts[2], parts[3], key) # NoErr
    THEN Rejected(Verify(method, parts[1], parts[2], parts[3], key))
    ELSE IF MapClaimsValid(parts[2], now) # NoErr
    THEN Rejected(MapClaimsValid(parts[2], now))
    ELSE Accepted

InitJwt ==
    /\ maps = <<>> /\ arrs = <<>> /\ js = <<>>
    /\ hd = [v |-> 0, c |-> 0, h |-> 0]
    /\ last = NoCall
    /\ prev = NoCall
    /\ uf = NoFlat
    /\ bd = NoBuilder
    /\ tk = [phase |-> "none", str |-> <<>>, method |-> "", key |-> "", now |-> 0,
             res |-> Rejected(NoErr)]
    /\ reg = NoRegistry
    /\ steps = 0
    /\ aborted = FALSE

JwtFrame == UNCHANGED <<maps, arrs, js, hd, last, prev, uf, bd, reg, steps, aborted>>

(* func (j *JWT) Generate(claims Claims) (string, error), through
   Token.SignedString: header, claims and signature joined by dots *)
Generate(method, key, exp, nbf) ==
    /\ tk.phase = "none"
    /\ tk' = [tk EXCEPT !.phase = "issued",
                        !.str = <<HeaderPart(method), ClaimsPart(exp, nbf),
                                  Sign(method, HeaderPart(method), ClaimsPart(exp, nbf), key)>>]
    /\ JwtFrame

(* The token string is changed on its way: a part replaced, dropped or added *)
ReplacePart(i, part) ==
    /\ tk.phase = "issued"
    /\ i \in 1..Len(tk.str)
    /\ tk' = [tk EXCEPT !.phase = "altered", !.str[i] = part]
    /\ JwtFrame

DropPart ==
    /\ tk.phase = "issued"
    /\ tk' = [tk EXCEPT !.phase = "altered", !.str = SubSeq(@, 1, Len(@) - 1)]
    /\ JwtFrame

AddPart ==
    /\ tk.phase = "issued"
    /\ tk' = [tk EXCEPT !.phase = "altered", !.str = Append(@, BadPart)]
    /\ JwtFrame

(* j := New(method, key); j.Parse(tokenString) at Unix time now *)
Parse(method, key, now) ==
    /\ tk.phase \in {"issued", "altered"}
    /\ tk' = [tk EXCEPT !.phase = "parsed", !.method = method, !.key = key, !.now = now,
                        !.res = ParseWithClaims(method, key, tk.str, now)]
    /\ JwtFrame

NextJwt ==
    \/ \E method \in Algs, key \in Secrets, exp \in ClaimTimes, nbf \in ClaimTimes :
          Generate(method, key, exp, nbf)
    \/ \E i \in 1..3, part \in {BadPart, ClaimsPart(Absent, Absent), HeaderPart("HS384")} :
          ReplacePart(i, part)
    \/ DropPart
    \/ AddPart
    \/ \E method \in Algs, key \in Secrets, now \in 1..MaxNow : Parse(method, key, now)

SpecJwt == InitJwt /\ [][NextJwt]_vars

----------------------------------------------------------------------------
(* types: EnumRegistry[int] used by goroutines; an XEnum is its address, the
   index into reg.enums *)

MaxEnumCalls == 3

Goroutines == {1, 2}

EnumValues == {1, 2}

EnumNames == {"x", "y"}

NoArg == [op |-> "", value |-> 0, name |-> ""]

(* m[k] = v on a Go map *)
Store(m, k, v) == [x \in (DOMAIN m) \cup {k} |-> IF x = k THEN v ELSE m[x]]

(* enum, exists := m[k]: 0 stands for (nil, false) *)
Lookup(m, k) == IF k \in DOMAIN m THEN m[k] ELSE 0

(* func NewEnumRegistry[T]() *)
InitEnum ==
    /\ maps = <<>> /\ arrs = <<>> /\ js = <<>>
    /\ hd = [v |-> 0, c |-> 0, h |-> 0]
    /\ last = NoCall
    /\ prev = NoCall
    /\ uf = NoFlat
    /\ bd = NoBuilder
    /\ tk = NoToken
    /\ reg = [values |-> EmptyFn, names |-> EmptyFn, all |-> <<>>, enums |-> <<>>,
              w |-> 0, rd |-> {},
              pc |-> [g \in Goroutines |-> "idle"],
              arg |-> [g \in Goroutines |-> NoArg],
              ret |-> [g \in Goroutines |-> 0],
              fl |-> [g \in Goroutines |-> FALSE],
              calls |-> 0, crashed |-> FALSE]
    /\ steps = 0
    /\ aborted = FALSE

EnumFrame == UNCHANGED <<maps, arrs, js, hd, last, prev, uf, bd, tk, steps, aborted>>

CanEnter(g) == reg.pc[g] = "idle" /\ ~reg.crashed /\ reg.calls < MaxEnumCalls

At_(g, label) == reg.pc[g] = label /\ ~reg.crashed

(* What the read-locked methods return *)
FromValue(r, value) == Lookup(r.values, value)

FromName(r, name) == Lookup(r.names, name)

IsValid(r, value) == value \in DOMAIN r.values

Count(r) == Len(r.all)

All(r) == r.all

(* Define: r.mu.Lock() *)
DefineLock(g, value, name) ==
    /\ CanEnter(g)
    /\ reg.w = 0 /\ reg.rd = {}
    /\ reg' = [reg EXCEPT !.w = g, !.pc[g] = "def_values", !.calls = @ + 1,
                          !.arg[g] = [op |-> "Define", value |-> value, name |-> name]]
    /\ EnumFrame

(* enum := &XEnum[T]{...}; r.values[value] = enum *)
DefineValues(g) ==
    /\ At_(g, "def_values")
    /\ reg' = [reg EXCEPT !.enums = Append(@, [value |-> reg.arg[g].value,
                                               name |-> reg.arg[g].name]),
                          !.values = Store(@, reg.arg[g].value, Len(reg.enums) + 1),
                          !.pc[g] = "def_names"]
    /\ EnumFrame

(* r.names[name] = enum *)
DefineNames(g) ==
    /\ At_(g, "def_names")
    /\ reg' = [reg EXCEPT !.names = Store(@, reg.arg[g].name, Len(reg.enums)),
                          !.pc[g] = "def_all"]
    /\ EnumFrame

(* r.all = append(r.all, enum); return enum, with the deferred r.mu.Unlock() *)
DefineUnlock(g) ==
    /\ At_(g, "def_all")
    /\ reg' = [reg EXCEPT !.all = Append(@, Len(reg.enums)),
                          !.w = 0, !.ret[g] = Len(reg.enums), !.pc[g] = "idle"]
    /\ EnumFrame

LockedOps == {"FromValue", "FromName", "IsValid", "Count", "NewFastLookup"}

(* r.mu.RLock() of FromValue, FromName, IsValid, Count, NewFastLookup *)
RLock(g, op, value, name) ==
    /\ CanEnter(g)
    /\ reg.w = 0
    /\ reg' = [reg EXCEPT !.rd = @ \cup {g}, !.pc[g] = "rd_read", !.calls = @ + 1,
                          !.arg[g] = [op |-> op, value |-> value, name |-> name]]
    /\ EnumFrame

(* The body of the read-locked method; NewFastLookup copies the two map
   references into the FastLookup it returns *)
LockedRead(g) ==
    /\ At_(g, "rd_read")
    /\ LET a == reg.arg[g]
           out == IF a.op = "FromValue" THEN FromValue(reg, a.value)
                  ELSE IF a.op = "FromName" THEN FromName(reg, a.name)
                  ELSE IF a.op = "IsValid" THEN (IF IsValid(reg, a.value) THEN 1 ELSE 0)
                  ELSE IF a.op = "Count" THEN Count(reg)
                  ELSE 0
       IN  reg' = [reg EXCEPT !.ret[g] = out, !.pc[g] = "rd_unlock",
                              !.fl[g] = @ \/ a.op = "NewFastLookup"]
    /\ EnumFrame

(* the deferred r.mu.RUnlock() *)
RUnlock(g) ==
    /\ At_(g, "rd_unlock")
    /\ reg' = [reg EXCEPT !.rd = @ \ {g}, !.pc[g] = "idle"]
    /\ EnumFrame

(* f.GetByValue(value) or f.GetByName(name) is entered: no lock is taken *)
FastCall(g, op, value, name) ==
    /\ CanEnter(g)
    /\ reg.fl[g]
    /\ reg' = [reg EXCEPT !.pc[g] = "fl_read", !.calls = @ + 1,
                          !.arg[g] = [op |-> op, value |-> value, name |-> name]]
    /\ EnumFrame

(* Goroutine g is about to write, or to read, the map named m *)
Writes(g, m) ==
    \/ m = "values" /\ reg.pc[g] = "def_values"
    \/ m = "names" /\ reg.pc[g] = "def_names"

MapRead(a) ==
    IF a.op \in {"FromValue", "IsValid", "GetByValue"} THEN "values"
    ELSE IF a.op \in {"FromName", "GetByName"} THEN "names"
    ELSE "none"

Reads(g, m) == reg.pc[g] \in {"rd_read", "fl_read"} /\ MapRead(reg.arg[g]) = m

(* enum, exists := f.valueMap[value] (f.nameMap[name]): f's maps are the
   registry's own. Without a concurrent writer it is a plain lookup; with one
   it is a data race, whose read may return anything or stop the program
   (fatal error: concurrent map read and map write) *)
FastRead(g) ==
    /\ At_(g, "fl_read")
    /\ LET a == reg.arg[g]
           racy == \E g2 \in Goroutines \ {g} : Writes(g2, MapRead(a))
           plain == IF a.op = "GetByValue" THEN Lookup(reg.values, a.value)
                    ELSE Lookup(reg.names, a.name)
       IN  \/ reg' = [reg EXCEPT !.ret[g] = plain, !.pc[g] = "idle"]
           \/ /\ racy
              /\ \E out \in 0..Len(reg.enums) :
                    reg' = [reg EXCEPT !.ret[g] = out, !.pc[g] = "idle"]
           \/ /\ racy
              /\ reg' = [reg EXCEPT !.crashed = TRUE]
    /\ EnumFrame

NextEnum ==
    \/ \E g \in Goroutines, value \in EnumValues, name \in EnumNames :
          DefineLock(g, value, name)
    \/ \E g \in Goroutines : DefineValues(g)
    \/ \E g \in Goroutines : DefineNames(g)
    \/ \E g \in Goroutines : DefineUnlock(g)
    \/ \E g \in Goroutines, op \in LockedOps : RLock(g, op, 1, "x")
    \/ \E g \in Goroutines : LockedRead(g)
    \/ \E g \in Goroutines : RUnlock(g)
    \/ \E g \in Goroutines, op \in {"GetByValue", "GetByName"} : FastCall(g, op, 1, "x")
    \/ \E g \in Goroutines : FastRead(g)

SpecEnum == InitEnum /\ [][NextEnum]_vars

----------------------------------------------------------------------------
(* Properties *)

HeapNext == [maps |-> maps', arrs |-> arrs']

(* The receiver of the last call was not in the error state (err never changes) *)
RecvOk == last.recv # 0 /\ js[last.recv].err = NoErr

Returned == ~aborted /\ last.res # 0

WriteOps == {"Set", "Delete", "Append", "Prepend", "Remove"}

\* C1: for a starting value that is Null, an Object or an Array and a non-empty
\* path p, after r = v.Set(p, x) the call r.Get(p) returns x without error.
C1_SetThenGet ==
    (last.op = "Set" /\ last.path # <<>> /\ RecvOk /\ Returned
        /\ js[last.recv].data.t \in {"nil", "map", "arr"})
    => LET r == js[last.res]
           g == getByPath(Heap, r.data, last.path)
       IN  r.err = NoErr /\ g.err = NoErr /\ g.v = last.val

\* C2: immediately after j.Set(p, anything) with non-empty p, j.Has(p) is true,
\* and after a subsequent j.Delete(p), j.Has(p) is false.
C2_HasAfterSetAndDelete ==
    /\ (last.op = "Set" /\ last.path # <<>> /\ RecvOk /\ Returned)
        => HasResult(Heap, js[last.recv], last.path)
    /\ (last.op = "Delete" /\ prev.op = "Set" /\ prev.recv = last.recv
            /\ prev.path = last.path /\ last.path # <<>> /\ RecvOk)
        => ~HasResult(Heap, js[last.recv], last.path)

\* C3: for every value v built from nested Objects and Arrays with scalar leaves,
\* Unflatten(Flatten(v)) is structurally equal to v, whatever the replay order.
C3_FlattenRoundTrip ==
    uf.phase = "done" => Abs(Heap, js[hd.h].data) = Abs(Heap, js[hd.v].data)

StickyOps == {"Get", "Set", "Delete", "Index", "Append", "Prepend", "Remove",
              "ForEach", "Map", "Filter", "Clone", "Merge", "DeepMerge"}

\* C5: a chained operation on a receiver in the error state returns a value
\* in the error state.
C5_StickyError ==
    (last.op \in StickyOps /\ last.recv # 0 /\ js[last.recv].err # NoErr)
    => (Returned /\ js[last.res].err # NoErr)

C5_Witness ==
    /\ last.op = "Clone" /\ js[last.recv].err # NoErr
    /\ prev.op \in StickyOps /\ js[prev.recv].err # NoErr
    /\ last.res # last.recv

\* C6: Set never aborts the process; it always returns a value.
C6_SetNeverPanics == last.op = "Set" => ~aborted

(* All slice headers held anywhere: in a handle, a map or a backing array *)
SliceHeaders ==
    {js[p].data : p \in {q \in 1..Len(js) : js[q].data.t = "arr"}}
    \cup UNION {{maps[m][k] : k \in {x \in DOMAIN maps[m] : maps[m][x].t = "arr"}}
                : m \in 1..Len(maps)}
    \cup UNION {{arrs[a].el[i] : i \in {x \in DOMAIN arrs[a].el : arrs[a].el[x].t = "arr"}}
                : a \in 1..Len(arrs)}

HasCapSegment(path) ==
    \E i \in 1..Len(Split(path)) :
        Atoi(Split(path)[i]).ok /\ Atoi(Split(path)[i]).n >= MaxIndex

\* C7: a Set whose path has an index segment >= 10000 returns InvalidIndex, and
\* no array of length greater than 10000 is ever allocated.
C7_GrowthCapped ==
    /\ (last.op = "Set" /\ RecvOk /\ Returned /\ HasCapSegment(last.path))
        => js[last.res].err = "InvalidIndex"
    /\ \A h \in SliceHeaders : h.n <= MaxIndex

(* The step the claim describes for one segment on one value *)
ClaimStep(H, cur, seg) ==
    IF cur.t = "arr"
    THEN IF ~Atoi(seg).ok THEN Fail("TypeMismatch")
         ELSE IF Atoi(seg).n \in 0..(cur.n - 1) THEN Ok(ArrGet(H, cur, Atoi(seg).n))
         ELSE Fail("IndexOutOfRange")
    ELSE IF cur.t = "map"
    THEN IF seg \in DOMAIN H.maps[cur.r] THEN Ok(H.maps[cur.r][seg])
         ELSE Fail("PathNotFound")
    ELSE Fail("TypeMismatch")

RECURSIVE ClaimWalk(_, _, _)
ClaimWalk(H, cur, parts) ==
    IF parts = <<>> THEN Ok(cur)
    ELSE LET st == ClaimStep(H, cur, Head(parts))
         IN  IF st.err # NoErr THEN st ELSE ClaimWalk(H, st.v, Tail(parts))

\* C8: Get fails with IndexOutOfRange for an integer segment outside [0, len) of
\* an Array, PathNotFound for an absent key of an Object, TypeMismatch for any
\* segment on a scalar or Null or a non-integer segment on an Array; it succeeds
\* only when every segment resolves, and the empty path returns the payload.
C8_GetClassifies ==
    (last.op = "Get" /\ RecvOk)
    => LET want == IF last.path = <<>> THEN Ok(js[last.recv].data)
                   ELSE ClaimWalk(Heap, js[last.recv].data, Split(last.path))
       IN  /\ Returned
           /\ js[last.res].err = want.err
           /\ want.err = NoErr => js[last.res].data = want.v

C8_Witness ==
    /\ last.op = "Get" /\ RecvOk /\ js[last.res].err = "IndexOutOfRange"
    /\ Len(Split(last.path)) = 3
    /\ prev.op = "Get" /\ js[prev.res].err = NoErr /\ js[prev.res].data.t = "arr"
    /\ Len(Split(prev.path)) = 2

(* The value the parent path of the last segment resolves to *)
ParentOf(H, data, path) ==
    getWalk(H, data, SubSeq(Split(path), 1, Len(Split(path)) - 1))

C10_AppendNeedsArray ==
    [][(last'.op \in {"Append", "Prepend"} /\ js[last'.recv].err = NoErr
          /\ js[last'.recv].data.t # "arr")
       => /\ js'[last'.res].err # NoErr
          /\ js'[last'.res].data = js[last'.recv].data
          /\ js'[last'.recv] = js[last'.recv]
          /\ maps' = maps /\ arrs' = arrs]_vars

C10_Witness ==
    /\ last.op = "Prepend" /\ RecvOk /\ js[last.recv].data.t = "map"
    /\ js[last.res].err = "TypeMismatch" /\ js[last.res].data = js[last.recv].data
    /\ prev.op = "Append" /\ js[prev.res].err = "TypeMismatch"

(* What every Get and Has on handle q answers from *)
View(H, j) == [tree |-> Abs(H, j.data), err |-> j.err]

\* C4: a clone shares no container with its source: a Set, Delete, Append,
\* Prepend or Remove on the clone (or on a handle derived from it) leaves what
\* the source's handles see unchanged, and the other way round.
C4_CloneIndependent ==
    [][last'.op \in WriteOps
       => \A q \in 1..Len(js) :
            ({js[q].fam, js[last'.recv].fam} = {"v", "c"})
            => View(HeapNext, js'[q]) = View(Heap, js[q])]_vars

C4_Witness ==
    /\ last.op = "Set" /\ last.path = P_ab /\ js[last.recv].fam = "c" /\ Returned
    /\ js[last.res].err = NoErr
    /\ prev.op = "Clone" /\ prev.recv = hd.v
    /\ getByPath(Heap, js[hd.c].data, P_ab).v = Str(1)
    /\ getByPath(Heap, js[hd.v].data, P_ab).v = S0

\* C11: Index(i) returns an error-state value, without panicking and without
\* changing the receiver, whenever the receiver is not an Array or i is outside
\* [0, length); otherwise it returns element i.
C11_IndexChecksBounds ==
    [][(last'.op = "Index" /\ js[last'.recv].err = NoErr)
       => LET d == js[last'.recv].data
              i == last'.idx
              r == js'[last'.res]
          IN  /\ ~aborted' /\ last'.res # 0
              /\ js'[last'.recv] = js[last'.recv]
              /\ maps' = maps /\ arrs' = arrs
              /\ IF d.t # "arr" \/ i < 0 \/ i >= d.n
                 THEN r.err # NoErr
                 ELSE r.err = NoErr /\ r.data = ArrGet(Heap, d, i)]_vars

C11_Witness ==
    /\ last.op = "Index" /\ RecvOk /\ last.idx \in {-1, BigIndex}
    /\ js[last.recv].data.t = "arr" /\ js[last.recv].data.n = 2
    /\ js[last.res].err = "IndexOutOfRange"
    /\ prev.op = "Index" /\ prev.idx = 1 /\ prev.recv = last.recv
    /\ js[prev.res].err = NoErr /\ js[prev.res].data = S0

(* seq without its element at zero-based position i *)
RemoveAt(seq, i) == [k \in 1..(Len(seq) - 1) |-> IF k <= i THEN seq[k] ELSE seq[k + 1]]

\* C12: for an Array receiver of length n and 0 <= i < n, after Remove(i) the
\* receiver holds the original sequence with element i removed; a Prepend(v)
\* puts v in front of the original sequence, so Remove(0) after it restores it.
C12_RemoveShifts ==
    [][(last'.op \in {"Remove", "Prepend"} /\ js[last'.recv].err = NoErr
          /\ js[last'.recv].data.t = "arr")
       => LET old == Elems(Heap, js[last'.recv].data)
              new == Elems(HeapNext, js'[last'.recv].data)
              i   == last'.idx
          IN  IF last'.op = "Prepend"
              THEN new = <<last'.val>> \o old /\ js'[last'.recv].err = NoErr
              ELSE (i >= 0 /\ i < Len(old))
                   => /\ new = RemoveAt(old, i)
                      /\ last'.res = last'.recv
                      /\ js'[last'.recv].err = NoErr]_vars

C12_Witness ==
    /\ last.op = "Remove" /\ last.idx = 0 /\ RecvOk
    /\ prev.op = "Prepend" /\ prev.recv = last.recv /\ prev.val = Str(1)
    /\ Elems(Heap, js[last.recv].data) = <<Nil, S0>>

(* The array of f(e) for the elements e of seq that satisfy p, in their order *)
FilterThenMap(seq, pr, fn) ==
    LET T(e) == ApplyPred(pr, "", e)
        kept == SelectSeq(seq, T)
    IN  [i \in 1..Len(kept) |-> ApplyFn(fn, "", kept[i])]

\* C13: for an Array receiver a, a.Filter(p).Map(f) is the Array of f(e) for
\* exactly the elements e of a that satisfy p, in their original order, and
\* neither Filter nor Map changes a.
C13_FilterMap ==
    [][/\ (last'.op \in {"Filter", "Map"} /\ js[last'.recv].err = NoErr
            /\ js[last'.recv].data.t = "arr")
          => /\ js'[last'.recv] = js[last'.recv]
             /\ Elems(HeapNext, js'[last'.recv].data) = Elems(Heap, js[last'.recv].data)
             /\ last'.res # last'.recv
       /\ (last'.op = "Map" /\ last.op = "Filter" /\ last'.recv = last.res
            /\ js[last.recv].err = NoErr /\ js[last.recv].data.t = "arr")
          => /\ js'[last'.res].err = NoErr
             /\ js'[last'.res].data.t = "arr"
             /\ Elems(HeapNext, js'[last'.res].data)
                  = FilterThenMap(Elems(Heap, js[last.recv].data), last.fn, last'.fn)]_vars

C13_Witness ==
    /\ last.op = "Map" /\ last.fn = "tag" /\ prev.op = "Filter" /\ prev.fn = "notS0"
    /\ last.recv = prev.res
    /\ Elems(Heap, js[prev.recv].data) = <<Str(1), Str(0), Nil>>
    /\ Elems(Heap, js[last.res].data) = <<Str(11), Nil>>

\* C14: for Object receiver a and Object argument b, a.Merge(b) is a new Object
\* with key set keys(a) union keys(b), the value from b for every key of b and
\* the value from a otherwise; a and b are not modified; if either side is not
\* an Object the result is an error-state value.
C14_MergeShallow ==
    [][(last'.op = "Merge" /\ js[last'.recv].err = NoErr /\ js[last'.other].err = NoErr)
       => LET a == js[last'.recv].data
              b == js[last'.other].data
              r == js'[last'.res]
          IN  /\ Len(maps') >= Len(maps)
              /\ \A m \in 1..Len(maps) : maps'[m] = maps[m]
              /\ arrs' = arrs
              /\ \A q \in 1..Len(js) : js'[q] = js[q]
              /\ IF a.t = "map" /\ b.t = "map"
                 THEN /\ r.err = NoErr /\ r.data.t = "map"
                      /\ r.data.r > Len(maps)
                      /\ DOMAIN maps'[r.data.r] = (DOMAIN maps[a.r]) \cup (DOMAIN maps[b.r])
                      /\ \A k \in DOMAIN maps'[r.data.r] :
                            maps'[r.data.r][k] = IF k \in DOMAIN maps[b.r]
                                                 THEN maps[b.r][k] ELSE maps[a.r][k]
                 ELSE r.err # NoErr]_vars

C14_Witness ==
    /\ last.op = "Merge" /\ last.recv = hd.v /\ last.other = hd.c
    /\ js[last.res].err = NoErr
    /\ Abs(Heap, js[hd.v].data) =
          LObj([k \in {K_a, K_b} |-> IF k = K_a THEN LObj([x \in {K_b} |-> Str(1)]) ELSE S0])
    /\ Abs(Heap, js[hd.c].data) = LObj([k \in {K_a} |-> LObj([x \in {K_a} |-> S0])])
    /\ Abs(Heap, js[last.res].data) =
          LObj([k \in {K_a, K_b} |-> IF k = K_a THEN LObj([x \in {K_a} |-> S0]) ELSE S0])

RECURSIVE TreeDeepMerge(_, _)
(* The deep merge of two trees as the claim words it *)
TreeDeepMerge(x, y) ==
    IF x.t = "map" /\ y.t = "map"
    THEN LObj([k \in (DOMAIN x.kv) \cup (DOMAIN y.kv) |->
                 IF k \notin DOMAIN y.kv THEN x.kv[k]
                 ELSE IF k \notin DOMAIN x.kv THEN y.kv[k]
                 ELSE TreeDeepMerge(x.kv[k], y.kv[k])])
    ELSE y

\* C15: DeepMerge keeps receiver-only keys, adds argument-only keys, merges
\* recursively where both sides hold an Object at the same key, and takes the
\* argument's value whole for every other conflict; with a non-Object root on
\* either side the result is the argument's value, and no error is raised.
C15_DeepMergeRecurses ==
    [][(last'.op = "DeepMerge" /\ js[last'.recv].err = NoErr /\ js[last'.other].err = NoErr)
       => /\ js'[last'.res].err = NoErr
          /\ Abs(HeapNext, js'[last'.res].data)
               = TreeDeepMerge(Abs(Heap, js[last'.recv].data), Abs(Heap, js[last'.other].data))]_vars

C15_Witness ==
    /\ last.op = "DeepMerge" /\ last.recv = hd.v /\ last.other = hd.c
    /\ Abs(Heap, js[hd.v].data) =
          LObj([k \in {K_b} |->
                  LObj([x \in {K_a, K_b} |->
                          IF x = K_a THEN S0 ELSE LObj([y \in {K_a} |-> S0])])])
    /\ Abs(Heap, js[hd.c].data) =
          LObj([k \in {K_b} |-> LObj([x \in {K_b} |-> LObj([y \in {K_b} |-> Str(1)])])])
    /\ Abs(Heap, js[last.res].data) =
          LObj([k \in {K_b} |->
                  LObj([x \in {K_a, K_b} |->
                          IF x = K_a THEN S0
                          ELSE LObj([y \in {K_a, K_b} |-> IF y = K_a THEN S0 ELSE Str(1)])])])

(* The fields of a list *)
Requested(fields) == {fields[i] : i \in 1..Len(fields)}

\* C16: for an Object source s, Pick(s, fields...) is an error-free fresh Object
\* in which every requested field f is present exactly when s has it, with the
\* same value, and which contains nothing that was not requested; this holds
\* for keys that look like integers too.
C16_PickExact ==
    [][(last'.op = "Pick" /\ js[last'.recv].err = NoErr /\ js[last'.recv].data.t = "map")
       => /\ ~aborted'
          /\ LET src == js[last'.recv]
                 r   == js'[last'.res]
             IN  /\ r.err = NoErr /\ r.data.t = "map" /\ r.data.r > Len(maps)
                 /\ \A f \in Requested(last'.fields) :
                       /\ HasResult(HeapNext, r, f) <=> HasResult(Heap, src, f)
                       /\ HasResult(Heap, src, f)
                            => Abs(HeapNext, getByPath(HeapNext, r.data, f).v)
                                 = Abs(Heap, getByPath(Heap, src.data, f).v)
                 /\ \A k \in DOMAIN maps'[r.data.r] :
                       \E f \in Requested(last'.fields) : Split(f)[1] = k]_vars

(* Field lists that name top-level fields only *)
TopLevel(fields) == \A i \in 1..Len(fields) : Len(Split(fields[i])) = 1

\* C17: for an Object source s, Omit(s, fields...) never modifies s; the result
\* lacks every named top-level field and keeps every other field with an equal
\* value; naming a field that s does not have is a no-op.
C17_OmitFrame ==
    [][(last'.op = "Omit" /\ js[last'.recv].err = NoErr /\ js[last'.recv].data.t = "map"
          /\ TopLevel(last'.fields))
       => LET src  == js[last'.recv]
              r    == js'[last'.res]
              old  == Abs(Heap, src.data).kv
              new  == Abs(HeapNext, r.data).kv
              gone == Requested(last'.fields)
          IN  /\ ~aborted' /\ r.err = NoErr /\ r.data.t = "map"
              /\ r.data.r > Len(maps)
              /\ \A m \in 1..Len(maps) : maps'[m] = maps[m]
              /\ \A a \in 1..Len(arrs) : arrs'[a] = arrs[a]
              /\ js'[last'.recv] = src
              /\ DOMAIN new = (DOMAIN old) \ gone
              /\ \A k \in DOMAIN new : new[k] = old[k]]_vars

C17_Witness ==
    /\ last.op = "Omit" /\ last.fields = <<P_0, K_b>> /\ RecvOk
    /\ DOMAIN maps[js[last.recv].data.r] = {K_a, P_0}
    /\ DOMAIN maps[js[last.res].data.r] = {K_a}
    /\ Abs(Heap, js[last.res].data).kv[K_a] = LArr(<<S0, Str(1)>>)

AccessorOps == {"String", "Int", "Int64", "Float64", "Bool", "Length"}

(* The zero value of each accessor's result type *)
ZeroRet(op) ==
    CASE op = "String"  -> Ret("string", 0, <<>>)
      [] op = "Int"     -> Ret("int", 0, <<>>)
      [] op = "Int64"   -> Ret("int64", 0, <<>>)
      [] op = "Float64" -> Ret("float64", 0, <<>>)
      [] op = "Bool"    -> Ret("bool", 0, <<>>)
      [] op = "Length"  -> Ret("int", 0, <<>>)

\* C18: on every error-state value, also one that carries a preserved payload,
\* String, Int, Int64, Float64, Bool and Length return their zero values, Has
\* returns false for every path, and none of them panics.
C18_ErrorStateZero ==
    (last.recv # 0 /\ js[last.recv].err # NoErr)
    => /\ last.op \in AccessorOps => (~aborted /\ last.ret = ZeroRet(last.op))
       /\ last.op = "Has" => (~aborted /\ ~last.flag)

C18_Witness ==
    /\ last.op = "Length" /\ js[last.recv].err = "IndexOutOfRange"
    /\ js[last.recv].data.t = "arr" /\ js[last.recv].data.n = 2
    /\ prev.op = "Remove" /\ prev.res = last.recv
    /\ last.ret = Ret("int", 0, <<>>)

\* C19: for every payload on which IsNumber is true, Int, Int64 and Float64
\* return that number (truncated toward zero when a float is read as an
\* integer), never the zero default.
C19_NumbersPassThrough ==
    (last.op \in {"Int", "Int64", "Float64"} /\ RecvOk /\ IsNumber(js[last.recv].data))
    => LET d == js[last.recv].data
       IN  last.ret.i = IF last.op = "Float64"
                        THEN (IF d.t \in FloatKinds THEN d.r ELSE 10 * d.r)
                        ELSE (IF d.t \in FloatKinds THEN Trunc(d.r) ELSE d.r)

\* C20: after any sequence of AddX(key, value) calls on NewBuilder(), and for
\* QuickObject over any field map, Build().Get(key) returns the last value
\* added under key for every key that was added; for NewArrayBuilder() the
\* built Array holds the appended values in call order, and Length is their
\* number.
C20_BuilderAccumulates ==
    bd.built
    => /\ bd.kind = "object"
            => \A key \in DOMAIN bd.added :
                  getByPath(Heap, js[hd.h].data, key) = Ok(bd.added[key])
       /\ (bd.kind = "array" /\ bd.added = EmptyFn)
            => /\ js[hd.h].data.t = "arr"
               /\ Elems(Heap, js[hd.h].data) = bd.appended
               /\ LengthOf(Heap, js[hd.h]) = Ret("int", Len(bd.appended), <<>>)

\* C23: a Set that returns a value in the error state leaves the receiver's
\* tree exactly as it was before the call: no container created on the way, no
\* array grown or padded, a Null root not replaced.
C23_FailedSetLeavesTree ==
    [][(last'.op = "Set" /\ steps' = steps + 1 /\ ~aborted'
          /\ js[last'.recv].err = NoErr /\ js'[last'.res].err # NoErr)
       => Abs(HeapNext, js'[last'.recv].data) = Abs(Heap, js[last'.recv].data)]_vars

(* The segments of a path; the empty path names the root *)
Segments(p) == IF p = <<>> THEN <<>> ELSE Split(p)

IsPrefix(s, t) == Len(s) <= Len(t) /\ SubSeq(t, 1, Len(s)) = s

(* q is a prefix of p or an extension of p *)
Related(p, q) ==
    IsPrefix(Segments(p), Segments(q)) \/ IsPrefix(Segments(q), Segments(p))

Reread(H, root, rec) ==
    IF rec.op = "Get" THEN Abs(H, getByPath(H, root.data, rec.path).v)
    ELSE Abs(H, IndexResult(H, root, rec.idx).data)

\* C25: for a handle h obtained by root.Get(path) or root.Index(i) that holds
\* an Array, no h.Append, h.Prepend or h.Remove changes the length or any
\* element of the array that root.Get(path) (root.Index(i)) returns.
C25_DerivedHandleFrame ==
    [][(last'.op \in {"Append", "Prepend", "Remove"} /\ steps' = steps + 1
          /\ last.op \in {"Get", "Index"} /\ last.res = last'.recv
          /\ last.res # last.recv /\ js[last.recv].err = NoErr
          /\ js[last.res].err = NoErr /\ js[last.res].data.t = "arr")
       => Reread(HeapNext, js'[last.recv], last) = Reread(Heap, js[last.recv], last)]_vars

\* C26: the result of a.DeepMerge(b) shares no mutable container with a or
\* b: the merge leaves a and b unchanged, and a later Set or Delete on a
\* nested path of the result leaves what a and b hold unchanged.
C26_DeepMergeIndependent ==
    [][(steps' = steps + 1
          /\ \/ last'.op = "DeepMerge"
             \/ /\ last'.op \in {"Set", "Delete"}
                /\ last.op = "DeepMerge" /\ last.res = last'.recv
                /\ last.res \notin {hd.v, hd.c})
       => \A q \in {hd.v, hd.c} : View(HeapNext, js'[q]) = View(Heap, js[q])]_vars

\* C27: whenever the input of Pick or Omit is in the error state (its payload
\* Null or a preserved Object), the value returned is in the error state too.
C27_PickOmitKeepError ==
    (last.op \in {"Pick", "Omit"} /\ ~aborted /\ js[last.recv].err # NoErr)
    => js[last.res].err # NoErr

(* The tree Unflatten builds from flat when the map is ranged over in order *)
UnflattenTree(H, flat, order) ==
    CHOOSE out \in
       { Abs(r.H, r.data)
         : r \in {replay(AllocMap(H, EmptyFn), MapRef(NewMapId(H)), flat, order)} } : TRUE

\* C28: Unflatten is deterministic: for a flat mapping produced by Flatten the
\* resulting tree is the same for every order in which the entries are
\* replayed through Set.
C28_UnflattenDeterministic ==
    uf.phase = "done"
    => \A order \in Orders(DOMAIN uf.flat) :
          UnflattenTree(Heap, uf.flat, order) = Abs(Heap, js[hd.h].data)

\* C29: the value Build() returns is never in the error state, after any
\* sequence of AddX / AppendX calls, including calls whose underlying Set or
\* Append failed (Append on an object builder, Add on an array builder,
\* integer-looking keys).
C29_BuildNeverError ==
    bd.built => js[hd.h].err = NoErr

C29_Witness ==
    /\ bd.built /\ js[hd.h].err = NoErr
    /\ \/ bd.kind = "object" /\ P_0 \in DOMAIN bd.added /\ bd.appended # <<>>
       \/ bd.kind = "array" /\ K_a \in DOMAIN bd.added

(* The claims part says that the token is usable at Unix time now *)
WithinWindow(c, now) ==
    /\ ~(c.exp.has /\ now * 10 > c.exp.t)
    /\ ~(c.nbf.has /\ now * 10 < c.nbf.t)

(* A well-formed token of the configured method, signed with secret key *)
SignedWith(parts, method, key) ==
    /\ Len(parts) = 3
    /\ parts[1] = HeaderPart(method)
    /\ parts[2].k = "claims"
    /\ parts[3] = Sign(method, parts[1], parts[2], key)

\* C21: ParseWithClaims returns a non-nil token with Valid = true only if the
\* token string has three parts, the header algorithm is the configured one,
\* the signature verifies under the key and the claims are within their
\* window (not now > exp, not now < nbf); otherwise it returns a nil token and
\* an error: ErrInvalidSignature for another HMAC secret, ErrTokenExpired for
\* a correctly signed expired token, ErrTokenNotYetValid for a correctly
\* signed token whose nbf is in the future.
C21_ParseAcceptsOnlyValid ==
    tk.phase = "parsed"
    => LET r == tk.res
           p == tk.str
       IN  /\ (r.token # "nil" /\ r.valid)
                => (SignedWith(p, tk.method, tk.key) /\ WithinWindow(p[2], tk.now))
           /\ ~(r.token # "nil" /\ r.valid) => (r.token = "nil" /\ r.err # NoErr)
           /\ (\E k \in Secrets \ {tk.key} : SignedWith(p, tk.method, k))
                => r.err = "ErrInvalidSignature"
           /\ (SignedWith(p, tk.method, tk.key) /\ p[2].exp.has /\ tk.now * 10 > p[2].exp.t)
                => r.err = "ErrTokenExpired"
           /\ (SignedWith(p, tk.method, tk.key) /\ p[2].nbf.has /\ tk.now * 10 < p[2].nbf.t
                 /\ ~(p[2].exp.has /\ tk.now * 10 > p[2].exp.t))
                => r.err = "ErrTokenNotYetValid"

\* C22: every read and write of the registry's value-to-enum and
\* name-to-enum maps happens while the registry's reader/writer lock is held,
\* so no lookup (FromValue, FromName, IsValid, or one through a FastLookup
\* obtained from the registry) reads a map while a concurrent Define writes it.
C22_LookupsHoldLock ==
    \A g \in Goroutines, m \in {"values", "names"} :
       /\ Reads(g, m) => (g \in reg.rd \/ reg.w = g)
       /\ Writes(g, m) => reg.w = g
       /\ \A g2 \in Goroutines \ {g} : ~(Reads(g, m) /\ Writes(g2, m))

(* No call on the registry is in progress *)
Quiescent == ~reg.crashed /\ \A g \in Goroutines : reg.pc[g] = "idle"

\* C30: after any sequence of Define calls, re-definitions of a used value or
\* name included, Count() is the number of distinct values v with IsValid(v),
\* and every enum e in All() has FromValue(e.Value()) == e and
\* FromName(e.Name()) == e.
C30_RegistryConsistent ==
    Quiescent
    => /\ Count(reg) = Cardinality({v \in EnumValues : IsValid(reg, v)})
       /\ \A i \in 1..Len(All(reg)) :
            LET e == All(reg)[i]
            IN  /\ FromValue(reg, reg.enums[e].value) = e
                /\ FromName(reg, reg.enums[e].name) = e

====
